---- MODULE Spec2Model ----
(***************************************************************************)
(* A model of the directory scraper: the enrichment merge                  *)
(* (scraper/llm_extractor.py), the pagination planner, the element locator *)
(* and the link router (scraper/analyzer.py, scraper/utils.py), the email  *)
(* extractor (scraper/extractor.py) and the orchestrator (scraper/main.py).*)
(*                                                                         *)
(* The pure functions are operators; each is exercised by a specification  *)
(* of its own whose Init draws the inputs and whose action applies it.     *)
(* The orchestrator is the specification Spec.                             *)
(***************************************************************************)
EXTENDS Integers, Sequences, FiniteSets, TLC

VARIABLES
    \* ---- smart_extract (specification SpecMerge) ----
    mSchema,      \* field_schema: the set of field names
    mFallback,    \* fallback_data: the heuristic record
    mAnswer,      \* what the enrichment collaborator answers
    mOut,         \* what smart_extract returned (or that it raised)
    mPc,          \* "idle" | "ready" | "done"
    \* ---- _extract_email_field (specification SpecEmail) ----
    eElement,     \* the element the email is extracted from
    eOut,         \* what _extract_email_field returned
    ePc,          \* "idle" | "ready" | "done"
    \* ---- detect_pagination / generate_pages (specification SpecPag) ----
    pUrl,         \* the URL of the document (base_url)
    pDoc,         \* what detect_pagination reads in the document
    pMax,         \* max_pages
    pInfo,        \* pagination_info
    pPages,       \* the URL list generate_pages returned
    pPc,          \* "idle" | "detect" | "expand" | "done"
    \* ---- _filter_table_headers (specification SpecHdr) ----
    hRows,        \* the rows handed to the filter
    hOut,         \* the rows it returned
    hPc,          \* "idle" | "ready" | "done"
    \* ---- find_repeating_elements, run twice (specification SpecLoc) ----
    lDoc,         \* the document: its elements in document order
    lRuns,        \* the results of the runs made so far
    lPc,          \* "idle" | "run"
    \* ---- one record through extraction and enrichment (SpecRecord) ----
    rSchema,      \* field_schema: the set of field names
    rFlow,        \* "element" (in place) | "detail" (a detail document)
    rLlm,         \* "off" | "unconfigured" | "on": the enrichment collaborator
    rData,        \* the record so far
    rAsked,       \* the fields the collaborator was asked for, if it was
    rBefore,      \* the record as the enrichment pass found it
    rAnswer,      \* the kind of answer the collaborator gave, "none" if not asked
    rPc,          \* "idle" | "extract" | "enrich" | "done" | "raised"
    \* ---- ContentFetcher.fetch_static / get_soup (specification SpecFetch) ----
    fStrategy,    \* "static" | "dynamic" | "auto"
    fStatic,      \* what the underlying static request does
    fDynamic,     \* what each attempt of the rendered fetch does
    fOut,         \* what the call returned (or that it raised)
    fPc,          \* "idle" | "ready" | "static_done" | "soup_done"
    \* ---- detect_detail_page_type (specification SpecClassify) ----
    cDoc,         \* what the classifier reads in the document
    cOut,         \* what detect_detail_page_type returned
    cPc,          \* "idle" 
    \* ---- _extract_generic_text (specification SpecGeneric) ----
    gDesc,        \* the words of the field description, in order
    gName,        \* the words of the field name, in order
    gElement,     \* what the extractor reads in the element
    gOut,         \* what _extract_generic_text returned
    gPc,          \* "idle" 
    \* ---- ScraperOrchestrator.scrape (specifications Spec, SpecRoute) ----
    url,          \* the seed URL (base_url)
    max_pages,    \* config.max_pages
    max_workers,  \* config.max_workers
    pc,           \* where scrape is
    initial_soup, \* the seed document
    page_type,    \* what detect_detail_page_type answered for it
    page_urls,    \* the planned page URLs
    page_num,     \* the 1-based position in page_urls
    soup,         \* the document of the page being processed
    elements,     \* the located elements of the page
    links,        \* the detail links extracted from them
    route,        \* "" | "empty" | "inplace" | "fanout": how the page is handled
    next_element, \* the position of the in-place loop in elements
    futures,      \* the fan-out tasks of the page, in submission order
    page_results, \* the records of the page being processed
    all_results,  \* the records accumulated over the pages
    returned,     \* what scrape returned, once pc = "done"
    visited,      \* history: one summary per page of the plan gone through
    turn          \* history: whether the page being processed was fetched,
                  \* and the pacing delays taken since

mergeVars == <<mSchema, mFallback, mAnswer, mOut, mPc>>
emailVars == <<eElement, eOut, ePc>>
pagVars == <<pUrl, pDoc, pMax, pInfo, pPages, pPc>>
hdrVars == <<hRows, hOut, hPc>>
locVars == <<lDoc, lRuns, lPc>>
recVars == <<rSchema, rFlow, rLlm, rData, rAsked, rBefore, rAnswer, rPc>>
fetchVars == <<fStrategy, fStatic, fDynamic, fOut, fPc>>
clsVars == <<cDoc, cOut, cPc>>
genVars == <<gDesc, gName, gElement, gOut, gPc>>
orchVars == <<url, max_pages, max_workers, pc, initial_soup, page_type,
              page_urls, page_num, soup, elements, links, route, next_element,
              futures, page_results, all_results, returned, visited, turn>>

vars == <<mSchema, mFallback, mAnswer, mOut, mPc, eElement, eOut, ePc,
          pUrl, pDoc, pMax, pInfo, pPages, pPc, hRows, hOut, hPc,
          lDoc, lRuns, lPc, rSchema, rFlow, rLlm, rData, rAsked, rBefore,
          rAnswer, rPc, fStrategy, fStatic, fDynamic, fOut, fPc,
          cDoc, cOut, cPc,
          gDesc, gName, gElement, gOut, gPc,
          url, max_pages, max_workers, pc, initial_soup, page_type,
          page_urls, page_num, soup, elements, links, route, next_element,
          futures, page_results, all_results, returned, visited, turn>>

(***************************************************************************)
(* Each specification runs one part of the program; the variables of the   *)
(* other parts stay idle.                                                  *)
(***************************************************************************)
MergeIdle ==
    /\ mSchema = {} /\ mFallback = <<>> /\ mAnswer = <<>>
    /\ mOut = <<>> /\ mPc = "idle"

EmailIdle == eElement = <<>> /\ eOut = <<>> /\ ePc = "idle"

PagIdle ==
    /\ pUrl = <<>> /\ pDoc = <<>> /\ pMax = 0
    /\ pInfo = <<>> /\ pPages = <<>> /\ pPc = "idle"

HdrIdle == hRows = <<>> /\ hOut = <<>> /\ hPc = "idle"

LocIdle == lDoc = <<>> /\ lRuns = <<>> /\ lPc = "idle"

RecIdle ==
    /\ rSchema = {} /\ rFlow = "idle" /\ rLlm = "off"
    /\ rData = <<>> /\ rAsked = {} /\ rBefore = <<>>
    /\ rAnswer = "none" /\ rPc = "idle"

FetchIdle ==
    /\ fStrategy = "" /\ fStatic = <<>> /\ fDynamic = <<>>
    /\ fOut = "" /\ fPc = "idle"

ClsIdle ==
    /\ cDoc = <<>> /\ cOut = "" /\ cPc = "idle"

GenIdle ==
    /\ gDesc = <<>> /\ gName = <<>> /\ gElement = <<>> /\ gOut = "" /\ gPc = "idle"

OrchIdle ==
    /\ url = <<>> /\ max_pages = 0 /\ max_workers = 0 /\ pc = "idle"
    /\ initial_soup = <<>> /\ page_type = "" /\ page_urls = <<>>
    /\ page_num = 0 /\ soup = <<>> /\ elements = <<>> /\ links = {}
    /\ route = "" /\ next_element = 0 /\ futures = <<>>
    /\ page_results = <<>> /\ all_results = <<>> /\ returned = <<>>
    /\ visited = <<>> /\ turn = <<>>

IdleButMerge == EmailIdle /\ PagIdle /\ HdrIdle /\ LocIdle /\ RecIdle
    /\ FetchIdle /\ OrchIdle /\ ClsIdle /\ GenIdle

IdleButEmail == MergeIdle /\ PagIdle /\ HdrIdle /\ LocIdle /\ RecIdle
    /\ FetchIdle /\ OrchIdle /\ ClsIdle /\ GenIdle

IdleButPag == MergeIdle /\ EmailIdle /\ HdrIdle /\ LocIdle /\ RecIdle
    /\ FetchIdle /\ OrchIdle /\ ClsIdle /\ GenIdle

IdleButHdr == MergeIdle /\ EmailIdle /\ PagIdle /\ LocIdle /\ RecIdle
    /\ FetchIdle /\ OrchIdle /\ ClsIdle /\ GenIdle

IdleButLoc == MergeIdle /\ EmailIdle /\ PagIdle /\ HdrIdle /\ RecIdle
    /\ FetchIdle /\ OrchIdle /\ ClsIdle /\ GenIdle

IdleButRec == MergeIdle /\ EmailIdle /\ PagIdle /\ HdrIdle /\ LocIdle
    /\ FetchIdle /\ OrchIdle /\ ClsIdle /\ GenIdle

IdleButOrch == MergeIdle /\ EmailIdle /\ PagIdle /\ HdrIdle /\ LocIdle /\ RecIdle
    /\ FetchIdle /\ ClsIdle /\ GenIdle

IdleButFetch ==
    MergeIdle /\ EmailIdle /\ PagIdle /\ HdrIdle /\ LocIdle /\ RecIdle
    /\ OrchIdle /\ ClsIdle /\ GenIdle

IdleButGen ==
    MergeIdle /\ EmailIdle /\ PagIdle /\ HdrIdle /\ LocIdle /\ RecIdle
    /\ OrchIdle /\ ClsIdle /\ FetchIdle

IdleButCls ==
    MergeIdle /\ EmailIdle /\ PagIdle /\ HdrIdle /\ LocIdle /\ RecIdle
    /\ OrchIdle /\ FetchIdle /\ GenIdle

butMerge == <<emailVars, pagVars, hdrVars, locVars, recVars, orchVars,
    fetchVars, clsVars,
    genVars>>

butEmail == <<mergeVars, pagVars, hdrVars, locVars, recVars, orchVars,
    fetchVars, clsVars,
    genVars>>

butPag == <<mergeVars, emailVars, hdrVars, locVars, recVars, orchVars,
    fetchVars, clsVars,
    genVars>>

butHdr == <<mergeVars, emailVars, pagVars, locVars, recVars, orchVars,
    fetchVars, clsVars,
    genVars>>

butLoc == <<mergeVars, emailVars, pagVars, hdrVars, recVars, orchVars,
    fetchVars, clsVars,
    genVars>>

butRec == <<mergeVars, emailVars, pagVars, hdrVars, locVars, orchVars,
    fetchVars, clsVars,
    genVars>>

butOrch == <<mergeVars, emailVars, pagVars, hdrVars, locVars, recVars,
    fetchVars, clsVars,
    genVars>>

butFetch ==
    <<mergeVars, emailVars, pagVars, hdrVars, locVars, recVars, orchVars,
    clsVars,
    genVars>>

butGen ==
    <<mergeVars, emailVars, pagVars, hdrVars, locVars, recVars, orchVars,
    clsVars,
    fetchVars>>

butCls ==
    <<mergeVars, emailVars, pagVars, hdrVars, locVars, recVars, orchVars,
    fetchVars,
    genVars>>

(***************************************************************************)
(* Values.  Python's None is Null, the empty string is Empty; both are     *)
(* falsy, every other value used here is truthy.                           *)
(***************************************************************************)
Null == "<null>"
Empty == ""

Truthy(v) == v # Null /\ v # Empty

\* dict.get(k): the value under k, None when k is not a key
Get(d, k) == IF k \in DOMAIN d THEN d[k] ELSE Null

\* {field: None for field in fields}
AllNull(fields) == [f \in fields |-> Null]

\* the functions from any subset of keys to vals: the dicts over keys
Dicts(keys, vals) == UNION {[ks -> vals] : ks \in SUBSET keys}

(***************************************************************************)
(* The enrichment collaborator.  extract_from_html returns the all-null    *)
(* mapping when no client is configured or when the call (or the parsing   *)
(* of its answer) raises, and otherwise whatever JSON value the answer     *)
(* holds: an object with any keys, or a value that is no object.           *)
(***************************************************************************)
AnswerKeys == {"email", "phone", "department", "fax"}
AnswerValues == {Null, Empty, "other@x.com", "555-1234"}

Answers ==
    {[kind |-> "unconfigured"], [kind |-> "error"], [kind |-> "nonobject"]}
    \cup {[kind |-> "object", data |-> d] : d \in Dicts(AnswerKeys, AnswerValues)}

\* an extract_from_html that lets a failed call propagate
extract_from_html_ErrorPropagates(fields, answer) ==
    CASE answer.kind = "unconfigured" -> [object |-> TRUE, data |-> AllNull(fields)]
      [] answer.kind = "error"        -> [object |-> FALSE, data |-> <<>>]
      [] answer.kind = "object"       -> [object |-> TRUE, data |-> answer.data]
      [] answer.kind = "nonobject"    -> [object |-> FALSE, data |-> <<>>]

\* LLMExtractor.extract_from_html: [object |-> is the result a dict, data |-> it]
extract_from_html(fields, answer) ==
    CASE answer.kind = "unconfigured" -> [object |-> TRUE, data |-> AllNull(fields)]
      [] answer.kind = "error"        -> [object |-> TRUE, data |-> AllNull(fields)]
      [] answer.kind = "object"       -> [object |-> TRUE, data |-> answer.data]
      [] answer.kind = "nonobject"    -> [object |-> FALSE, data |-> <<>>]

\* the merge loop of smart_extract: a response value is taken only when it is
\* truthy and the field's current value is falsy
MergeOverwriteAlways(fallback, llm) ==
    [f \in (DOMAIN fallback) \cup {k \in DOMAIN llm : Truthy(llm[k])} |->
        IF f \in DOMAIN llm /\ Truthy(llm[f]) THEN llm[f] ELSE fallback[f]]

Merge(fallback, llm) ==
    [f \in (DOMAIN fallback)
           \cup {k \in DOMAIN llm : Truthy(llm[k]) /\ ~Truthy(Get(fallback, k))} |->
        IF f \in DOMAIN llm /\ Truthy(llm[f]) /\ ~Truthy(Get(fallback, f))
        THEN llm[f] ELSE fallback[f]]

\* the fields smart_extract asks the collaborator for
MissingFields(schema, fallback) == {k \in schema : ~Truthy(Get(fallback, k))}

\* LLMExtractor.smart_extract: [raised |-> did it raise, data |-> the record]
smart_extract(schema, fallback, answer) ==
    IF DOMAIN fallback = {}
    THEN LET r == extract_from_html(schema, answer)
         IN  [raised |-> FALSE, data |-> r.data]
    ELSE IF MissingFields(schema, fallback) = {}
    THEN [raised |-> FALSE, data |-> fallback]
    ELSE LET r == extract_from_html(MissingFields(schema, fallback), answer)
         IN  IF r.object
             THEN [raised |-> FALSE, data |-> Merge(fallback, r.data)]
             ELSE [raised |-> TRUE, data |-> fallback]

(***************************************************************************)
(* SpecMerge: smart_extract applied to every heuristic record over a       *)
(* schema and every answer of the collaborator.                            *)
(***************************************************************************)
MergeSchemas == {{"email", "phone"}, {"email", "phone", "department"}}

\* what the heuristic extractors can return for a field: the email and phone
\* extractors return None or a non-empty string, the generic text extractor
\* (any other field) can also return the empty string (a "label:" followed by
\* blanks only, stripped)
HeuristicRange(f) ==
    CASE f = "email" -> {Null, "a@x.com"}
      [] f = "phone" -> {Null, "555-0000"}
      [] OTHER       -> {Null, Empty, "Math"}

HeuristicRecords(schema) ==
    {r \in [schema -> UNION {HeuristicRange(f) : f \in schema}] :
        \A f \in schema : r[f] \in HeuristicRange(f)}

MergeInit ==
    /\ mSchema \in MergeSchemas
    /\ mFallback \in HeuristicRecords(mSchema)
    /\ mAnswer \in Answers
    /\ mOut = [raised |-> FALSE, data |-> <<>>]
    /\ mPc = "ready"
    /\ IdleButMerge

SmartExtract ==
    /\ mPc = "ready"
    /\ mOut' = smart_extract(mSchema, mFallback, mAnswer)
    /\ mPc' = "done"
    /\ UNCHANGED <<mSchema, mFallback, mAnswer>>
    /\ UNCHANGED butMerge

MergeNext == SmartExtract

SpecMerge == MergeInit /\ [][MergeNext]_vars

\* C4 (as stated): every field that was non-null before the merge keeps its
\* value, and a null field takes the response value only when that is non-null.
C4_NonNullNeverOverwritten ==
    (mPc = "done" /\ ~mOut.raised) =>
        \A f \in DOMAIN mFallback :
            /\ mFallback[f] # Null => mOut.data[f] = mFallback[f]
            /\ (mFallback[f] = Null /\ mOut.data[f] # Null) =>
                   (mOut.data[f] = Get(mAnswer.data, f) /\ mOut.data[f] # Null)

\* C4 (amended): every populated (non-null, non-empty) field keeps its value;
\* a null or empty field takes the response value exactly when the merge ran
\* and that value is non-null and non-empty, and otherwise keeps its value.
C4_PopulatedNeverOverwritten ==
    (mPc = "done" /\ ~mOut.raised) =>
        \A f \in DOMAIN mFallback :
            /\ Truthy(mFallback[f]) => mOut.data[f] = mFallback[f]
            /\ mOut.data[f] # mFallback[f] =>
                   /\ mAnswer.kind = "object"
                   /\ f \in DOMAIN mAnswer.data
                   /\ Truthy(mAnswer.data[f])
                   /\ mOut.data[f] = mAnswer.data[f]
            /\ (~Truthy(mFallback[f]) /\ mAnswer.kind = "object"
                  /\ Truthy(Get(mAnswer.data, f))) => mOut.data[f] = mAnswer.data[f]

\* the spec's example: {email: a@x.com, phone: null} merged with
\* {email: other@x.com, phone: 555-1234} gives {email: a@x.com, phone: 555-1234}
C4_Witness ==
    /\ mPc = "done"
    /\ mSchema = {"email", "phone"}
    /\ mFallback = [email |-> "a@x.com", phone |-> Null]
    /\ mAnswer = [kind |-> "object", data |-> [email |-> "other@x.com", phone |-> "555-1234"]]
    /\ mOut = [raised |-> FALSE, data |-> [email |-> "a@x.com", phone |-> "555-1234"]]

(***************************************************************************)
(* DataExtractor._extract_email_field.  An element is described by what    *)
(* the strategies read, in the order they read it:                         *)
(*   anchors    its <a href> descendants in document order; an anchor has  *)
(*              a scheme ("mailto", "MAILTO" for any other letter case,    *)
(*              "http", or "bare" for an href that is an address with no   *)
(*              scheme), the address in its href (Null when there is none, *)
(*              as in mailto:?subject=Hi) and the email in its text;       *)
(*   dataEmail  the first of data-email/data-mail/data-contact holding an  *)
(*              address;                                                   *)
(*   classEmail the email in the first descendant with an                  *)
(*              email/mail/contact class;                                  *)
(*   textEmail  the first email in the element's whole text.               *)
(* A returned value is [prefix, addr]: the address, behind the scheme      *)
(* text when the code left it in place.                                    *)
(***************************************************************************)
Addresses == {"a@x.com", "b@x.com"}

NoEmail == [prefix |-> "", addr |-> Null]
Plain(a) == [prefix |-> "", addr |-> a]

IsMailLink(a) == a.scheme \in {"mailto", "MAILTO"}

\* mailto['href'].replace('mailto:', '').split('?')[0].strip(): the replace is
\* case-sensitive, so another letter case of the scheme stays in the value
MailtoTarget(a) ==
    IF a.addr = Null THEN NoEmail
    ELSE IF a.scheme = "mailto" THEN Plain(a.addr)
    ELSE [prefix |-> "MAILTO:", addr |-> a.addr]

\* element.find('a', href=re.compile(r'^mailto:', re.I)): index of the first
\* mail-link, 0 when there is none
FirstMailLink(anchors) ==
    IF \E i \in 1..Len(anchors) : IsMailLink(anchors[i])
    THEN CHOOSE i \in 1..Len(anchors) :
            /\ IsMailLink(anchors[i])
            /\ \A j \in 1..(i - 1) : ~IsMailLink(anchors[j])
    ELSE 0

\* the loop over all links: an href holding "@" and "." that is no
\* http/https/tel/javascript link is returned whole; else the email of the text
LinkHit(a) ==
    IF a.addr # Null /\ a.scheme # "http"
    THEN IF a.scheme = "bare" THEN Plain(a.addr)
         ELSE IF a.scheme = "mailto" THEN [prefix |-> "mailto:", addr |-> a.addr]
         ELSE [prefix |-> "MAILTO:", addr |-> a.addr]
    ELSE IF a.text # Null THEN Plain(a.text)
    ELSE NoEmail

FirstLinkHit(anchors) ==
    IF \E i \in 1..Len(anchors) : LinkHit(anchors[i]) # NoEmail
    THEN LinkHit(anchors[CHOOSE i \in 1..Len(anchors) :
                    /\ LinkHit(anchors[i]) # NoEmail
                    /\ \A j \in 1..(i - 1) : LinkHit(anchors[j]) = NoEmail])
    ELSE NoEmail

extract_email_field(el) ==
    IF FirstMailLink(el.anchors) # 0
       /\ MailtoTarget(el.anchors[FirstMailLink(el.anchors)]) # NoEmail
    THEN MailtoTarget(el.anchors[FirstMailLink(el.anchors)])
    ELSE IF el.dataEmail # Null THEN Plain(el.dataEmail)
    ELSE IF el.classEmail # Null THEN Plain(el.classEmail)
    ELSE IF FirstLinkHit(el.anchors) # NoEmail THEN FirstLinkHit(el.anchors)
    ELSE IF el.textEmail # Null THEN Plain(el.textEmail)
    ELSE NoEmail

MaxAnchors == 2

Anchors ==
    {a \in [scheme : {"mailto", "MAILTO", "http", "bare"},
            addr : Addresses \cup {Null},
            text : Addresses \cup {Null}] :
        /\ a.scheme = "http" => a.addr = Null
        /\ a.scheme = "bare" => a.addr # Null}

AnchorSeqs == UNION {[1..n -> Anchors] : n \in 0..MaxAnchors}

\* get_text() of the element holds the text of its descendants: when an anchor
\* text or the class-matched descendant holds an email, so does the whole text
Elements ==
    {el \in [anchors : AnchorSeqs,
             dataEmail : Addresses \cup {Null},
             classEmail : Addresses \cup {Null},
             textEmail : Addresses \cup {Null}] :
        (el.classEmail # Null \/ \E i \in 1..Len(el.anchors) : el.anchors[i].text # Null)
            => el.textEmail # Null}

EmailInit ==
    /\ eElement \in Elements
    /\ eOut = NoEmail
    /\ ePc = "ready"
    /\ IdleButEmail

ExtractEmail ==
    /\ ePc = "ready"
    /\ eOut' = extract_email_field(eElement)
    /\ ePc' = "done"
    /\ UNCHANGED eElement
    /\ UNCHANGED butEmail

EmailNext == ExtractEmail

SpecEmail == EmailInit /\ [][EmailNext]_vars

\* the mail-links of the element whose target is an address
AddressMailLinks(el) ==
    {i \in 1..Len(el.anchors) : IsMailLink(el.anchors[i]) /\ el.anchors[i].addr # Null}

\* C9: whenever the element contains a mail-link whose target is an address,
\* the extracted email is the address of such a link, whatever the data
\* attributes, class-matched descendants, other anchors and free text hold.
C9_MailLinkPrecedence ==
    (ePc = "done" /\ AddressMailLinks(eElement) # {}) =>
        \E i \in AddressMailLinks(eElement) : eOut = Plain(eElement.anchors[i].addr)

\* C9 restricted to the case the code handles: the FIRST mail-link of the
\* element is a lower-case mailto: link to an address
C9_FirstMailLinkPrecedence ==
    (/\ ePc = "done"
     /\ FirstMailLink(eElement.anchors) # 0
     /\ eElement.anchors[FirstMailLink(eElement.anchors)].scheme = "mailto"
     /\ eElement.anchors[FirstMailLink(eElement.anchors)].addr # Null) =>
        eOut = Plain(eElement.anchors[FirstMailLink(eElement.anchors)].addr)

\* the spec's example: a mail-link to a@x.com and free text holding b@x.com
C9_Example ==
    /\ ePc = "done"
    /\ eElement.anchors = <<[scheme |-> "mailto", addr |-> "a@x.com", text |-> Null]>>
    /\ eElement.textEmail = "b@x.com"
    /\ eOut = Plain("a@x.com")

(***************************************************************************)
(* URLs and the pagination planner (utils.update_url_params,               *)
(* StructureAnalyzer.detect_pagination, PaginationHandler.generate_pages). *)
(* A URL is a path and a query: the sequence of its key=value pairs, in    *)
(* the order they are written; a value may be blank.                       *)
(***************************************************************************)
Url(path, query) == [path |-> path, query |-> query]
NoUrl == Url("", <<>>)

Pair(k, v) == [k |-> k, v |-> v]

\* str(n) for the page numbers used here
NumStr == <<"1", "2", "3", "4", "5", "6", "7", "8">>
Str(n) == NumStr[n]

RECURSIVE FirstKeys(_, _)
\* the distinct keys of q in order of first occurrence
FirstKeys(q, seen) ==
    IF q = <<>> THEN <<>>
    ELSE IF Head(q).k \in seen THEN FirstKeys(Tail(q), seen)
    ELSE <<Head(q).k>> \o FirstKeys(Tail(q), seen \cup {Head(q).k})

\* urllib's parse_qs: pairs with a blank value are dropped, the values of a key
\* are gathered under its first occurrence.  The result is the sequence of
\* [k, vs] entries of the dict, in insertion order.
parse_qs(q) ==
    LET kept == SelectSeq(q, LAMBDA pr : pr.v # "")
        keys == FirstKeys(kept, {})
        ValuesOf(key) ==
            LET mine == SelectSeq(kept, LAMBDA pr : pr.k = key)
            IN  [i \in 1..Len(mine) |-> mine[i].v]
    IN  [i \in 1..Len(keys) |-> [k |-> keys[i], vs |-> ValuesOf(keys[i])]]

HasKey(d, key) == \E i \in 1..Len(d) : d[i].k = key

\* query_params[key] = [value]: in place when the key is there, else appended
DictSet(d, key, value) ==
    IF HasKey(d, key)
    THEN [i \in 1..Len(d) |-> IF d[i].k = key THEN [k |-> key, vs |-> <<value>>] ELSE d[i]]
    ELSE Append(d, [k |-> key, vs |-> <<value>>])

RECURSIVE urlencode(_)
\* urlencode(query_params, doseq=True): one pair per value, in dict order
urlencode(d) ==
    IF d = <<>> THEN <<>>
    ELSE [i \in 1..Len(Head(d).vs) |-> Pair(Head(d).k, Head(d).vs[i])] \o urlencode(Tail(d))

\* utils.update_url_params(url, {key: value})
update_url_params(u, key, value) ==
    Url(u.path, urlencode(DictSet(parse_qs(u.query), key, value)))

\* the ordered candidate list of pagination parameter names
param_names == <<"page", "p", "pg", "pagenum", "offset", "start", "from">>

\* a scan that takes the first key of the query that is a candidate name
FirstParamInUrlOrder(u) ==
    LET d == parse_qs(u.query)
        hits == {i \in 1..Len(d) :
                    \E j \in 1..Len(param_names) : d[i].k = param_names[j]}
    IN  IF hits = {} THEN ""
        ELSE d[CHOOSE i \in hits : \A j \in hits : i <= j].k

\* the first candidate name among the query's keys, "" when there is none
FirstParam(u) ==
    LET d == parse_qs(u.query)
        hits == {i \in 1..Len(param_names) : HasKey(d, param_names[i])}
    IN  IF hits = {} THEN ""
        ELSE param_names[CHOOSE i \in hits : \A j \in hits : i <= j]

NoTotal == -1   \* total_pages = None
NoType == "none"

\* StructureAnalyzer.detect_pagination.  The document is described by what the
\* function reads: is there a pagination container, the target of its "next"
\* control (NoUrl when it has none), the greatest numeric link text in it
\* (NoTotal when there is none), and is there a load-more/show-more control.
detect_pagination(doc, u) ==
    LET param == FirstParam(u)
        byUrl == param # ""
    IN  [has_pagination |-> byUrl \/ doc.container \/ doc.load_more,
         type |-> IF doc.load_more THEN "button"
                  ELSE IF byUrl THEN "url_param" ELSE NoType,
         param_name |-> param,
         total_pages |-> IF doc.container THEN doc.total ELSE NoTotal,
         next_url |-> IF doc.container THEN doc.next ELSE NoUrl]

\* PaginationHandler.generate_pages
generate_pages(base, info, ceiling) ==
    IF ~info.has_pagination THEN <<base>>
    ELSE IF info.type = "url_param" /\ info.param_name # ""
    THEN LET num_pages == IF info.total_pages # NoTotal /\ info.total_pages # 0
                          THEN IF info.total_pages < ceiling
                               THEN info.total_pages ELSE ceiling
                          ELSE ceiling
         IN  <<base>> \o
             [i \in 1..(IF num_pages >= 2 THEN num_pages - 1 ELSE 0) |->
                 update_url_params(base, info.param_name, Str(i + 1))]
    ELSE IF info.next_url # NoUrl THEN <<base, info.next_url>>
    ELSE <<base>>

(***************************************************************************)
(* SpecPag: detection on a URL and a document, then expansion.             *)
(***************************************************************************)
MaxQuery == 2       \* pairs in the query of the base URL
MaxCeiling == 5     \* greatest ceiling
MaxTotal == 3       \* greatest discovered total-page count

QueryKeys == {"page", "p", "q"}
QueryValues == {"", "2", "a"}
Queries == UNION {[1..n -> [k : QueryKeys, v : QueryValues]] : n \in 0..MaxQuery}

PagDocs ==
    {d \in [container : BOOLEAN, next : {NoUrl, Url("next", <<>>)},
            total : {NoTotal} \cup 0..MaxTotal, load_more : BOOLEAN] :
        ~d.container => (d.next = NoUrl /\ d.total = NoTotal)}

PagInit ==
    /\ pUrl \in {Url("dir", q) : q \in Queries}
    /\ pDoc \in PagDocs
    /\ pMax \in 1..MaxCeiling
    /\ pInfo = <<>>
    /\ pPages = <<>>
    /\ pPc = "detect"
    /\ IdleButPag

Detect ==
    /\ pPc = "detect"
    /\ pInfo' = detect_pagination(pDoc, pUrl)
    /\ pPc' = "expand"
    /\ UNCHANGED <<pUrl, pDoc, pMax, pPages>>
    /\ UNCHANGED butPag

Expand ==
    /\ pPc = "expand"
    /\ pPages' = generate_pages(pUrl, pInfo, pMax)
    /\ pPc' = "done"
    /\ UNCHANGED <<pUrl, pDoc, pMax, pInfo>>
    /\ UNCHANGED butPag

PagNext == Detect \/ Expand

SpecPag == PagInit /\ [][PagNext]_vars

\* the values a URL's query gives to a key, in order
ValuesOfKey(u, key) ==
    LET mine == SelectSeq(u.query, LAMBDA pr : pr.k = key)
    IN  [i \in 1..Len(mine) |-> mine[i].v]

\* the query of a URL without the pairs of a key
WithoutKey(u, key) == SelectSeq(u.query, LAMBDA pr : pr.k # key)

\* a URL containing ?page=2, in a document with no load-more control and no
\* discovered total
C6_Case ==
    /\ ValuesOfKey(pUrl, "page") = <<"2">>
    /\ ~pDoc.load_more
    /\ pDoc.total \in {NoTotal, 0}

\* C6: a URL containing ?page=2 is detected as has-pagination, mechanism
\* URL-parameter, parameter "page"; expanded with unknown total and a ceiling
\* of 5 it gives 5 URLs whose "page" values are 1,2,3,4,5 in that order, every
\* other query parameter of the base URL unchanged in each.
C6_PageParamExpansion ==
    (C6_Case /\ pMax = 5) =>
        /\ pPc \in {"expand", "done"} =>
              /\ pInfo.has_pagination
              /\ pInfo.type = "url_param"
              /\ pInfo.param_name = "page"
        /\ pPc = "done" =>
              /\ Len(pPages) = 5
              /\ \A i \in 1..5 :
                    /\ ValuesOfKey(pPages[i], "page") = <<Str(i)>>
                    /\ WithoutKey(pPages[i], "page") = WithoutKey(pUrl, "page")

\* what the code does on that URL: the base URL comes first as it is (page=2)
\* and is followed by the URLs of pages 2..5
C6_CodeExpansion ==
    (C6_Case /\ pMax = 5 /\ pPc = "done") =>
        /\ Len(pPages) = 5
        /\ pPages[1] = pUrl
        /\ \A i \in 2..5 : ValuesOfKey(pPages[i], "page") = <<Str(i)>>

\* the first name of the candidate list that is in a set of names
FirstCandidate(names) ==
    LET hits == {i \in 1..Len(param_names) : param_names[i] \in names}
    IN  IF hits = {} THEN ""
        ELSE param_names[CHOOSE i \in hits : \A j \in hits : i <= j]

\* the parameter names the URL's query carries
CarriedNames(u) == {u.query[i].k : i \in 1..Len(u.query)}

\* those it carries with a value that is not blank
ValuedNames(u) ==
    {u.query[i].k : i \in {j \in 1..Len(u.query) : u.query[j].v # ""}}

\* C23: the load-more check wins: whenever the document has a load-more or
\* show-more control the plan has has_pagination and mechanism button, even
\* when the URL carries a pagination parameter (whose name stays recorded)
\* or a pagination container was found; without such a control a URL that
\* carries candidate parameters gets mechanism URL-parameter with the first
\* name of the ordered candidate list.
C23_LoadMoreWins ==
    pPc \in {"expand", "done"} =>
        /\ pDoc.load_more =>
              /\ pInfo.has_pagination /\ pInfo.type = "button"
              /\ pInfo.param_name = FirstCandidate(CarriedNames(pUrl))
        /\ (~pDoc.load_more /\ FirstCandidate(CarriedNames(pUrl)) # "") =>
              /\ pInfo.has_pagination /\ pInfo.type = "url_param"
              /\ pInfo.param_name = FirstCandidate(CarriedNames(pUrl))

\* C23, amended: a parameter counts only when the URL gives it a value that
\* is not blank; the name recorded is the first of the candidate list among
\* those, whatever their order in the URL, and it stays recorded under the
\* button mechanism.
C23_LoadMoreWinsOverValuedParams ==
    pPc \in {"expand", "done"} =>
        /\ pInfo.param_name = FirstCandidate(ValuedNames(pUrl))
        /\ pDoc.load_more =>
              (pInfo.has_pagination /\ pInfo.type = "button")
        /\ (~pDoc.load_more /\ FirstCandidate(ValuedNames(pUrl)) # "") =>
              (pInfo.has_pagination /\ pInfo.type = "url_param")
        /\ (~pDoc.load_more /\ FirstCandidate(ValuedNames(pUrl)) = "") =>
              /\ pInfo.type = NoType
              /\ pInfo.has_pagination <=> pDoc.container

\* ?p=2&page=a on a document with a pagination container and a load-more
\* control: mechanism button, the name "page" recorded
C23_Witness ==
    /\ pPc = "done" /\ pDoc.load_more /\ pDoc.container
    /\ pUrl.query = <<Pair("p", "2"), Pair("page", "a")>>
    /\ pInfo.type = "button" /\ pInfo.param_name = "page"

(***************************************************************************)
(* Elements of a document, as the locator reads them.  An element is       *)
(* [id, f]: its position in document order and its features                *)
(*   tag            the tag name                                           *)
(*   cls            its class attribute ("" when it has none)              *)
(*   nav            dropped by the navigation filter of the pattern passes *)
(*                  (inside nav/footer/header, under a nav/menu class, or  *)
(*                  _is_navigation_element)                                *)
(*   table          the enclosing table of a row (0: none)                 *)
(*   mail, tel      has a mailto: link, has a tel: link                    *)
(*   links          number of <a href> descendants                         *)
(*   text           length class of its text: "tiny" (< 10), "short"       *)
(*                  (10..20), "mid" (21..999), "long" (>= 1000)            *)
(*   img            has an image                                           *)
(*   kids           number of children is in 2..30                         *)
(*   sig            the sorted tuple of its child tags                     *)
(*   th             has header cells                                       *)
(*   kw             its text holds at least 2 of the header words          *)
(***************************************************************************)
Min(a, b) == IF a < b THEN a ELSE b

\* header test of _filter_table_headers
IsHeader(e) == e.f.th \/ (e.f.kw /\ ~(e.f.mail \/ e.f.tel))

\* rows inspected by _filter_table_headers
HeaderScan == 3

\* a filter that drops only the first row when it is a header
filter_table_headers_FirstOnly(rows) ==
    IF rows # <<>> /\ IsHeader(rows[1]) /\ Len(rows) > 1 THEN Tail(rows) ELSE rows

\* StructureAnalyzer._filter_table_headers
filter_table_headers(rows) ==
    LET n == Min(HeaderScan, Len(rows))
        data == {i \in 1..n : ~IsHeader(rows[i])}
    IN  IF data = {} THEN rows
        ELSE SubSeq(rows, CHOOSE i \in data : \A j \in data : i <= j, Len(rows))

(***************************************************************************)
(* SpecHdr: the filter applied to every table of up to MaxRows rows.       *)
(***************************************************************************)
MaxRows == 5
MinRows == 3    \* the locator hands over candidate sets of at least 3 rows

RowFeatures == [th : BOOLEAN, kw : BOOLEAN, mail : BOOLEAN, tel : {FALSE}]

WithIds(fs) == [i \in 1..Len(fs) |-> [id |-> i, f |-> fs[i]]]

HdrInit ==
    /\ hRows \in {WithIds(fs) : fs \in UNION {[1..n -> RowFeatures] : n \in MinRows..MaxRows}}
    /\ hOut = <<>>
    /\ hPc = "ready"
    /\ IdleButHdr

FilterHeaders ==
    /\ hPc = "ready"
    /\ hOut' = filter_table_headers(hRows)
    /\ hPc' = "done"
    /\ UNCHANGED hRows
    /\ UNCHANGED butHdr

HdrNext == FilterHeaders

SpecHdr == HdrInit /\ [][HdrNext]_vars

\* number of leading header rows among the rows the filter inspects
LeadingHeaders(rows) ==
    LET n == Min(HeaderScan, Len(rows))
    IN  Cardinality({k \in 1..n : \A j \in 1..k : IsHeader(rows[j])})

\* C7 (as stated): inspecting at most the first 3 rows, the filter drops the
\* leading header rows and nothing else: it returns the rows from the first
\* non-header row onward.
C7_DropsLeadingHeaders ==
    hPc = "done" =>
        hOut = SubSeq(hRows, LeadingHeaders(hRows) + 1, Len(hRows))

\* C7 (amended): when one of the (at most 3) inspected rows is not a header,
\* the filter returns the rows from the first such row onward, in order; when
\* every inspected row is a header it returns all the rows unchanged.
C7_DropsLeadingHeadersOrKeepsAll ==
    hPc = "done" =>
        IF LeadingHeaders(hRows) < Min(HeaderScan, Len(hRows))
        THEN hOut = SubSeq(hRows, LeadingHeaders(hRows) + 1, Len(hRows))
        ELSE hOut = hRows

\* one header row of header cells followed by 3 data rows gives the 3 data rows
C7_Witness ==
    /\ hPc = "done"
    /\ Len(hRows) = 4
    /\ hRows[1].f.th
    /\ \A i \in 2..4 : ~IsHeader(hRows[i])
    /\ hOut = SubSeq(hRows, 2, 4)

(***************************************************************************)
(* StructureAnalyzer.find_repeating_elements.                              *)
(***************************************************************************)
\* the classes the three class patterns match (re.search, case-insensitive)
PersonClasses == {"person", "member", "profile", "employee", "staff", "student",
                  "faculty", "directory-item"}
CardClasses == {"card", "entry", "result", "listing", "item", "row", "col",
                "directory-item"}
EntryClasses == {"entry", "result", "listing", "item", "directory-item"}

\* container_patterns, in priority order
container_patterns ==
    << [tag |-> "div", class |-> "person"],
       [tag |-> "li", class |-> "person"],
       [tag |-> "article", class |-> "person"],
       [tag |-> "tr", class |-> "any"],
       [tag |-> "div", class |-> "card"],
       [tag |-> "li", class |-> "entry"],
       [tag |-> "article", class |-> "any"],
       [tag |-> "div", class |-> "some"],
       [tag |-> "li", class |-> "any"] >>

\* soup.find_all(tag_name, attrs)
Matches(e, pat) ==
    /\ e.f.tag = pat.tag
    /\ CASE pat.class = "person" -> e.f.cls \in PersonClasses
         [] pat.class = "card"   -> e.f.cls \in CardClasses
         [] pat.class = "entry"  -> e.f.cls \in EntryClasses
         [] pat.class = "some"   -> e.f.cls # ""
         [] pat.class = "any"    -> TRUE

\* the per-element score of _score_elements
ElScore(e) ==
      (IF e.f.mail THEN 15 ELSE 0)
    + (IF e.f.tel THEN 15 ELSE 0)
    + Min(e.f.links * 3, 15)
    + (CASE e.f.text = "mid" -> 10 [] e.f.text = "long" -> 5 [] OTHER -> 0)
    + (IF e.f.img THEN 5 ELSE 0)
    + (IF e.f.kids THEN 10 ELSE 0)
    + (IF e.f.tag \in {"li", "tr"} THEN 5 ELSE 0)

RECURSIVE SumScores(_)
SumScores(es) == IF es = <<>> THEN 0 ELSE ElScore(Head(es)) + SumScores(Tail(es))

SampleSize == 5

\* StructureAnalyzer._score_elements: the floor of the mean over the first 5
score_elements(es) ==
    IF es = <<>> THEN 0
    ELSE LET sample == SubSeq(es, 1, Min(SampleSize, Len(es)))
         IN  SumScores(sample) \div Len(sample)

\* the order in which a dict built by insertion is iterated: insertion order
IterationOrdersAny(keys) ==
    {o \in [1..Len(keys) -> {keys[i] : i \in 1..Len(keys)}] :
        \A k \in 1..Len(keys) : \E i \in 1..Len(keys) : o[i] = keys[k]}

IterationOrders(keys) == {keys}

RECURSIVE FirstOf(_, _, _)
\* the distinct values of Key over es, in order of first occurrence
FirstOf(es, Key(_), seen) ==
    IF es = <<>> THEN <<>>
    ELSE IF Key(Head(es)) \in seen THEN FirstOf(Tail(es), Key, seen)
    ELSE <<Key(Head(es))>> \o FirstOf(Tail(es), Key, seen \cup {Key(Head(es))})

\* the elements of one pattern pass, after the navigation filter
PassElements(doc, pat) == SelectSeq(doc, LAMBDA e : Matches(e, pat) /\ ~e.f.nav)

TableOf(e) == e.f.table

\* keys of the dict tables of the bare-tr pass, in insertion order
TableKeys(doc, pat) ==
    FirstOf(SelectSeq(PassElements(doc, pat), LAMBDA e : e.f.table # 0), TableOf, {})

\* candidate_sets of one pass: the rows of each table for the bare-tr pass (in
\* the order the dict is iterated), the pooled elements for any other pass
CandidateSets(doc, pat, order) ==
    IF pat.tag = "tr" /\ pat.class = "any"
    THEN [i \in 1..Len(order) |->
            SelectSeq(PassElements(doc, pat), LAMBDA e : e.f.table = order[i])]
    ELSE <<PassElements(doc, pat)>>

RECURSIVE AllCandidateSets(_, _, _)
\* the candidate sets of the passes i.., in the order the loops meet them
AllCandidateSets(doc, i, order) ==
    IF i > Len(container_patterns) THEN <<>>
    ELSE CandidateSets(doc, container_patterns[i], order)
            \o AllCandidateSets(doc, i + 1, order)

MinCount == 3       \* members a candidate set needs
CountCap == 20      \* the count weight of a pattern set is min(count, 20) / 20
StructCap == 50     \* that of a structure group is min(count, 50) / 10
FallbackBelow == 10 \* the fallback runs when the best weighted score is below

\* weighted_score * 20 of a pattern set (an integer)
Weighted20(es) == score_elements(es) * Min(Len(es), CountCap)

\* a selection that lets a later set win a tie
BetterOrEqual(new, old) == new >= old

\* weighted_score > max_score
Better(new, old) == new > old

RECURSIVE BestOf(_, _)
\* the loop over candidate sets: best = [cands, w20] so far
BestOf(sets, best) ==
    IF sets = <<>> THEN best
    ELSE LET c == Head(sets)
         IN  IF Len(c) >= MinCount /\ Better(Weighted20(c), best.w20)
             THEN BestOf(Tail(sets), [cands |-> c, w20 |-> Weighted20(c)])
             ELSE BestOf(Tail(sets), best)

SigOf(e) == <<e.f.tag, e.f.sig>>

\* the elements _find_by_structure_similarity groups
StructElements(doc) ==
    SelectSeq(doc, LAMBDA e : e.f.tag \in {"div", "li", "article", "section", "tr"}
                              /\ e.f.text # "tiny")

\* keys of the dict structure_groups, in insertion order
StructKeys(doc) == FirstOf(StructElements(doc), SigOf, {})

StructGroups(doc, order) ==
    [i \in 1..Len(order) |-> SelectSeq(StructElements(doc), LAMBDA e : SigOf(e) = order[i])]

RECURSIVE BestGroup(_, _)
\* the loop over structure groups: best = [cands, w] with w = weighted * 10
BestGroup(groups, best) ==
    IF groups = <<>> THEN best
    ELSE LET g == Head(groups)
             w == score_elements(g) * Min(Len(g), StructCap)
         IN  IF Len(g) >= MinCount /\ Better(w, best.w)
             THEN BestGroup(Tail(groups), [cands |-> g, w |-> w])
             ELSE BestGroup(Tail(groups), best)

\* StructureAnalyzer._find_by_structure_similarity
find_by_structure_similarity(doc, order) ==
    BestGroup(StructGroups(doc, order), [cands |-> <<>>, w |-> 0]).cands

\* StructureAnalyzer.find_repeating_elements, given the orders in which the
\* two dicts are iterated.  The result: the elements returned, the best
\* weighted score of the pattern passes (times 20) and the score of the
\* structure group when the fallback ran (-1 when it did not).
find_repeating_elements(doc, tableOrder, structOrder) ==
    LET best == BestOf(AllCandidateSets(doc, 1, tableOrder), [cands |-> <<>>, w20 |-> 0])
        fallback == best.cands = <<>> \/ best.w20 < FallbackBelow * CountCap
        sc == find_by_structure_similarity(doc, structOrder)
        adopt == fallback /\ sc # <<>> /\ score_elements(sc) * CountCap > best.w20
        chosen == IF adopt THEN sc ELSE best.cands
    IN  [elements |-> IF chosen # <<>> /\ chosen[1].f.tag = "tr"
                      THEN filter_table_headers(chosen) ELSE chosen,
         max_score20 |-> best.w20,
         structure_score |-> IF fallback /\ sc # <<>> THEN score_elements(sc) ELSE -1]

(***************************************************************************)
(* SpecLoc: the locator run twice on every document of up to MaxDoc        *)
(* elements drawn from a catalogue of element kinds.                       *)
(***************************************************************************)
MaxDoc == 6

Feat(tag, cls, nav, table, mail, text, kids, kw) ==
    [tag |-> tag, cls |-> cls, nav |-> nav, table |-> table, mail |-> mail,
     tel |-> FALSE, links |-> IF mail THEN 1 ELSE 0, text |-> text, img |-> FALSE,
     kids |-> kids, sig |-> "cells", th |-> FALSE, kw |-> kw]

ElementKinds ==
    { Feat("div", "person", FALSE, 0, FALSE, "mid", TRUE, FALSE),   \* a profile card
      Feat("div", "person", FALSE, 0, FALSE, "tiny", FALSE, FALSE), \* a bare name
      Feat("li", "", TRUE, 0, TRUE, "mid", TRUE, FALSE),            \* a menu entry
      Feat("tr", "", FALSE, 1, TRUE, "mid", TRUE, FALSE),           \* a data row, table 1
      Feat("tr", "", FALSE, 1, FALSE, "mid", TRUE, TRUE),           \* a row of header words
      Feat("tr", "", FALSE, 2, TRUE, "mid", TRUE, FALSE) }          \* a data row, table 2

Docs == {WithIds(fs) : fs \in UNION {[1..n -> ElementKinds] : n \in 0..MaxDoc}}

LocInit ==
    /\ lDoc \in Docs
    /\ lRuns = <<>>
    /\ lPc = "run"
    /\ IdleButLoc

\* one call of find_repeating_elements on the document
Locate ==
    /\ lPc = "run"
    /\ Len(lRuns) < 2
    /\ \E to \in IterationOrders(TableKeys(lDoc, container_patterns[4])),
          so \in IterationOrders(StructKeys(lDoc)) :
          lRuns' = Append(lRuns, find_repeating_elements(lDoc, to, so))
    /\ UNCHANGED <<lDoc, lPc>>
    /\ UNCHANGED butLoc

LocNext == Locate

SpecLoc == LocInit /\ [][LocNext]_vars

Range(q) == {q[i] : i \in 1..Len(q)}

\* the qualifying candidate sets of a document: the sets of at least 3
\* members any pattern pass or the structure grouping forms
QualifyingGroups(doc) ==
    {g \in Range(AllCandidateSets(doc, 1, TableKeys(doc, container_patterns[4])))
           \cup Range(StructGroups(doc, StructKeys(doc))) : Len(g) >= MinCount}

TheGroup(doc) == CHOOSE g \in QualifyingGroups(doc) : TRUE

\* C8 (as stated): when the document has exactly one qualifying group of
\* k >= 3 like elements and no other, the locator returns exactly those k
\* elements, each once, in document order.
C8_ReturnsTheGroup ==
    (Len(lRuns) >= 1 /\ Cardinality(QualifyingGroups(lDoc)) = 1) =>
        lRuns[1].elements = TheGroup(lDoc)

\* C8 (amended): with exactly one qualifying group, the locator returns its
\* elements in document order when the group's richness score is positive
\* (rows: after the table-header post-filter), and nothing when the score is 0.
C8_ReturnsTheGroupIfScored ==
    (Len(lRuns) >= 1 /\ Cardinality(QualifyingGroups(lDoc)) = 1) =>
        lRuns[1].elements =
            IF score_elements(TheGroup(lDoc)) = 0 THEN <<>>
            ELSE IF TheGroup(lDoc)[1].f.tag = "tr"
                 THEN filter_table_headers(TheGroup(lDoc))
                 ELSE TheGroup(lDoc)

\* the spec's example: exactly 3 elements sharing a distinctive class, found
\* beside elements that form no group, are returned in document order
C8_Witness ==
    /\ Len(lRuns) >= 1
    /\ Len(lDoc) = 5
    /\ Cardinality(QualifyingGroups(lDoc)) = 1
    /\ Len(TheGroup(lDoc)) = 3
    /\ \A i \in 1..3 : TheGroup(lDoc)[i].f.cls = "person"
    /\ lRuns[1].elements = TheGroup(lDoc)
    /\ \A i \in 1..2 : lRuns[1].elements[i].id < lRuns[1].elements[i + 1].id

\* C28: the locator's result is either empty or has at least 3 members, also
\* after the table-header post-filter has been applied to winning table rows.
C28_EmptyOrAtLeastThree ==
    \A i \in 1..Len(lRuns) :
        lRuns[i].elements = <<>> \/ Len(lRuns[i].elements) >= MinCount

\* what the code keeps: a result is empty, or has at least 3 members, or is
\* what the header filter left of a winning set of at least 3 table rows
C28_CodeShortOnlyAfterHeaderFilter ==
    \A i \in 1..Len(lRuns) :
        LET out == lRuns[i].elements
        IN  \/ out = <<>>
            \/ Len(out) >= MinCount
            \/ /\ out[1].f.tag = "tr"
               /\ \E g \in QualifyingGroups(lDoc) :
                     /\ Len(out) < Len(g)
                     /\ out = SubSeq(g, Len(g) - Len(out) + 1, Len(g))
                     /\ \A j \in 1..(Len(g) - Len(out)) : IsHeader(g[j])

PageAddress == "http://site/p1"

\* the marker for a field extractor that raises (urljoin on a malformed href)
UrlError == "<ValueError>"

IsUrlField(f) == f \in {"url", "page_url"}

\* the name, bio and address extractors return None or a non-empty text
IsTextField(f) ==
    f \in {"name", "title", "position", "role", "bio", "address", "location"}

\* what DataExtractor._extract_field can return for a field; the URL extractor
\* joins the first href to the base URL, which raises on a malformed href
FieldRange(f) ==
    IF IsUrlField(f) THEN {Null, "http://site/x", UrlError}
    ELSE IF IsTextField(f) THEN {Null, "Ada Lovelace"}
    ELSE HeuristicRange(f)

\* DataExtractor.extract_from_element / DetailPageExtractor.extract_from_page:
\* one value per field of the schema
RECURSIVE ExtractedRecords(_)
ExtractedRecords(schema) ==
    IF schema = {} THEN {<<>>}
    ELSE LET f == CHOOSE x \in schema : TRUE
         IN  {[x \in schema |-> IF x = f THEN v ELSE r[x]] :
                 r \in ExtractedRecords(schema \ {f}), v \in FieldRange(f)}

ExtractionRaises(r) == \E f \in DOMAIN r : r[f] = UrlError

\* an assignment that keeps a URL the heuristic extractor found
AddPageUrlKeepsFound(schema, data, address) ==
    IF "page_url" \in schema \/ "url" \in schema
    THEN LET url_field == IF "page_url" \in schema THEN "page_url" ELSE "url"
         IN  [f \in (DOMAIN data) \cup {url_field} |->
                 IF f = url_field /\ ~Truthy(Get(data, f))
                 THEN address ELSE data[f]]
    ELSE data

\* _extract_from_detail_page: data[url_field] = url
AddPageUrl(schema, data, address) ==
    IF "page_url" \in schema \/ "url" \in schema
    THEN LET url_field == IF "page_url" \in schema THEN "page_url" ELSE "url"
         IN  [f \in (DOMAIN data) \cup {url_field} |->
                 IF f = url_field THEN address ELSE data[f]]
    ELSE data

\* sum(1 for v in data.values() if not v)
missing_fields(data) == Cardinality({f \in DOMAIN data : ~Truthy(data[f])})

\* a test that also enriches at exactly 30% missing
NeedsEnrichmentAtLeast(data) ==
    10 * missing_fields(data) >= 3 * Cardinality(DOMAIN data)

\* missing_fields > len(data) * 0.3
NeedsEnrichment(data) ==
    10 * missing_fields(data) > 3 * Cardinality(DOMAIN data)

\* the answers a record is enriched with: no client, a failed call, a JSON
\* value that is no object, or an object giving some of the keys a value
\* (a falsy and a truthy one)
RecordAnswers ==
    {[kind |-> "unconfigured"], [kind |-> "error"], [kind |-> "nonobject"]}
    \cup {[kind |-> "object", data |-> d] :
              d \in Dicts(AnswerKeys, {Null, "555-1234"})}

\* what the collaborator can answer, by how it is set up
AnswersOf(llm) ==
    IF llm = "unconfigured" THEN {[kind |-> "unconfigured"]}
    ELSE {a \in RecordAnswers : a.kind # "unconfigured"}

\* the collaborator was not asked
NoAnswer == "none"

\* a schema of ten fields: three of them empty is exactly 30%
TenFields ==
    {"email", "phone", "department", "name", "title", "position", "role",
     "bio", "address", "location"}

RecordSchemas ==
    {{"email", "phone"}, {"email", "department", "page_url"},
     {"department", "url", "page_url"}, TenFields}

RecInit ==
    /\ rSchema \in RecordSchemas
    /\ rFlow \in {"element", "detail"}
    /\ rLlm \in {"off", "unconfigured", "on"}
    /\ rData = <<>>
    /\ rAsked = {}
    /\ rBefore = <<>>
    /\ rAnswer = NoAnswer
    /\ rPc = "extract"
    /\ IdleButRec

\* the heuristic extraction of the record (and, for a detail document, the
\* assignment of its address)
ExtractRecord ==
    /\ rPc = "extract"
    /\ \E r \in ExtractedRecords(rSchema) :
          IF ExtractionRaises(r)
          THEN rPc' = "raised" /\ rData' = rData
          ELSE /\ rData' = IF rFlow = "detail"
                           THEN AddPageUrl(rSchema, r, PageAddress) ELSE r
               /\ rPc' = "enrich"
    /\ UNCHANGED <<rSchema, rFlow, rLlm, rAsked, rBefore, rAnswer>>
    /\ UNCHANGED butRec

\* if self.llm_extractor: ... data = smart_extract(html, field_schema, data)
EnrichRecord ==
    /\ rPc = "enrich"
    /\ rBefore' = rData
    /\ IF rLlm # "off" /\ NeedsEnrichment(rData)
       THEN \E a \in AnswersOf(rLlm) :
               LET out == smart_extract(rSchema, rData, a)
               IN  /\ rAsked' = MissingFields(rSchema, rData)
                   /\ rAnswer' = a.kind
                   /\ rData' = out.data
                   /\ rPc' = IF out.raised THEN "raised" ELSE "done"
       ELSE rPc' = "done" /\ UNCHANGED <<rData, rAsked, rAnswer>>
    /\ UNCHANGED <<rSchema, rFlow, rLlm>>
    /\ UNCHANGED butRec

RecNext == ExtractRecord \/ EnrichRecord

SpecRecord == RecInit /\ [][RecNext]_vars

\* C1: every record the scraper produces has exactly the schema's fields as
\* its keys, whatever the enrichment collaborator answers
C1_KeysAreSchema == rPc = "done" => DOMAIN rData = rSchema

\* C11: an enrichment failure (the collaborator unconfigured, or its call
\* raising) degrades to the all-null mapping for the requested fields and
\* never raises; after the enrichment pass the record equals the heuristic
\* record it had before, field for field.
C11_FailureKeepsRecord ==
    rAnswer \in {"unconfigured", "error"} =>
        /\ rPc = "done"
        /\ rData = rBefore
        /\ extract_from_html(rAsked, [kind |-> rAnswer]) =
               [object |-> TRUE, data |-> AllNull(rAsked)]

\* a partially filled record went through a failed collaborator call
C11_Witness ==
    /\ rPc = "done" /\ rAnswer = "error" /\ rAsked # {}
    /\ \E f \in DOMAIN rBefore : Truthy(rBefore[f])

\* the fields of the record, as the enrichment pass found it, that hold
\* nothing
EmptyBefore == {f \in DOMAIN rBefore : ~Truthy(rBefore[f])}

\* C20: the enrichment collaborator is invoked for a record exactly when
\* enrichment is enabled and strictly more than 30% of the record's fields
\* are null or empty (exactly 30% is not enriched), and the request then
\* names exactly the fields that are still null or empty.
C20_EnrichedAboveThreshold ==
    (rPc \in {"done", "raised"} /\ DOMAIN rBefore # {}) =>
        /\ rAnswer # NoAnswer <=>
              /\ rLlm # "off"
              /\ 10 * Cardinality(EmptyBefore) > 3 * Cardinality(DOMAIN rBefore)
        /\ rAsked = IF rAnswer # NoAnswer THEN EmptyBefore ELSE {}

\* enrichment enabled, exactly 3 of 10 fields empty: the collaborator was
\* not asked
C20_Witness ==
    /\ rPc = "done" /\ rLlm = "on"
    /\ Cardinality(DOMAIN rBefore) = 10 /\ Cardinality(EmptyBefore) = 3
    /\ rAnswer = NoAnswer

\* the canonical URL field of a schema, "" when it names none
CanonicalUrlField(schema) ==
    IF "page_url" \in schema THEN "page_url"
    ELSE IF "url" \in schema THEN "url" ELSE ""

\* C21: every record produced from a detail document whose schema names a
\* canonical URL field has that field equal to the document's own URL,
\* whatever the heuristic extractor found for it; when the schema has both
\* page_url and url only page_url is set this way; and the value is there
\* before the enrichment pass counts the missing fields.
C21_DetailRecordCarriesAddress ==
    (rFlow = "detail" /\ rPc \in {"enrich", "done"}
        /\ CanonicalUrlField(rSchema) # "") =>
        /\ rData[CanonicalUrlField(rSchema)] = PageAddress
        /\ rPc = "done" => rBefore[CanonicalUrlField(rSchema)] = PageAddress
        /\ {"page_url", "url"} \subseteq rSchema => rData["url"] # PageAddress

\* a detail record with both fields went through the enrichment: page_url is
\* the document's address, url is what the heuristic extractor found
C21_Witness ==
    /\ rFlow = "detail" /\ rPc = "done" /\ rAnswer = "object"
    /\ {"page_url", "url"} \subseteq rSchema
    /\ rData["page_url"] = PageAddress /\ rData["url"] = "http://site/x"

(***************************************************************************)
(* The orchestrator (scraper/main.py).  A document is described by what    *)
(* the orchestrator reads in it: the elements the locator returns for it,  *)
(* whether it carries a detail signal (a profile/bio/about/detail block, a *)
(* top heading or a long text), and what detect_pagination reads in it.    *)
(* An element is described by the hrefs of its anchors, in document order. *)
(***************************************************************************)
Href(kind, target) == [kind |-> kind, target |-> target]

\* mailto:, tel:, javascript: and hrefs that start with "#"
Special == Href("special", 0)
\* an href the URL join resolves to the detail page numbered t
ToPage(t) == Href("plain", t)
\* an href to page t with a fragment ("/people/t#bio")
ToFragment(t) == Href("frag", t)
\* an href urljoin raises ValueError on ("http://[bad")
Bad == Href("bad", 0)

El(id, anchors) == [id |-> id, anchors |-> anchors]

NoPag == [container |-> FALSE, next |-> NoUrl, total |-> NoTotal,
          load_more |-> FALSE]

Doc(elems, detail, pag) ==
    [ok |-> TRUE, elems |-> elems, detail |-> detail, pag |-> pag]

\* get_soup returned None
NoDoc == [ok |-> FALSE, elems |-> <<>>, detail |-> FALSE, pag |-> NoPag]

\* the href extract_links_from_elements settles on for an element: that of
\* its first anchor, or, when that one is special, of the first anchor that
\* is not; Special when there is no anchor or none that is not special
ChosenHref(el) ==
    LET plain == {i \in 1..Len(el.anchors) : el.anchors[i].kind # "special"}
    IN  IF el.anchors = <<>> THEN Special
        ELSE IF el.anchors[1].kind # "special" THEN el.anchors[1]
        ELSE IF plain = {} THEN Special
        ELSE el.anchors[CHOOSE i \in plain : \A j \in plain : i <= j]

\* a link extraction that keeps the URLs holding a fragment
extract_links_keeping_fragments(els) ==
    [raised |-> \E i \in 1..Len(els) : ChosenHref(els[i]).kind = "bad",
     links |-> {ChosenHref(els[i]) :
                   i \in {j \in 1..Len(els) :
                             ChosenHref(els[j]).kind \in {"plain", "frag"}}}]

\* StructureAnalyzer.extract_links_from_elements: the set of the normalized
\* URLs, or that normalize_url raised.  A URL whose last path segment holds a
\* "#" is left out.
extract_links_from_elements(els) ==
    [raised |-> \E i \in 1..Len(els) : ChosenHref(els[i]).kind = "bad",
     links |-> {ChosenHref(els[i]) :
                   i \in {j \in 1..Len(els) : ChosenHref(els[j]).kind = "plain"}}]

\* a router that sends a page to fan-out only above one half
FanOutAboveHalf(ls, els) == ls # {} /\ 2 * Cardinality(ls) > Len(els)

\* if links and len(links) >= len(elements) * 0.5
FanOut(ls, els) == ls # {} /\ 2 * Cardinality(ls) >= Len(els)

\* StructureAnalyzer.detect_detail_page_type
detect_detail_page_type(doc) ==
    IF Len(doc.elems) >= 3 THEN "listing"
    ELSE IF doc.detail THEN "detail" ELSE "listing"

\* the orders list(set(links)) can come in
RECURSIVE Orders(_)
Orders(S) ==
    IF S = {} THEN {<<>>}
    ELSE UNION {{<<x>> \o o : o \in Orders(S \ {x})} : x \in S}

NoLink == Href("none", 0)

\* a record, by where it was extracted: on which page of the plan (0: the
\* seed as a detail document), in place from which element or from the
\* detail page behind which link
Rec(page, kind, id, link) ==
    [page |-> page, kind |-> kind, id |-> id, link |-> link]

\* a submitted task; fetches counts the get_soup calls made for its URL
Task(target) == [target |-> target, st |-> "queued", out |-> "pending",
                 collected |-> FALSE, fetches |-> 0]

Running(fs) == {i \in 1..Len(fs) : fs[i].st = "running"}

\* a pool that starts a task whenever one is queued
WorkerFreeUnbounded(fs, workers) == TRUE

\* ThreadPoolExecutor(max_workers): a queued task starts when fewer than
\* max_workers tasks are running
WorkerFree(fs, workers) == Cardinality(Running(fs)) < workers

\* a pool that is left as soon as one result was handled
PoolDrainedAtFirst(fs) == \E j \in 1..Len(fs) : fs[j].collected

\* the as_completed loop ends, and the with block is left, when every
\* future has completed and was handled
PoolDrained(fs) == \A j \in 1..Len(fs) : fs[j].collected

\* a collector that appends whatever the task ended in
HandleResultAlways(results, fut, page) ==
    Append(results, Rec(page, "detail", 0, fut.target))

\* result = future.result(); if result: results.append(result), what the
\* task raised being caught
HandleResult(results, fut, page) ==
    IF fut.out = "record"
    THEN Append(results, Rec(page, "detail", 0, fut.target))
    ELSE results

\* a failed fetch after which the same page is tried again
ContinueOnSamePage(num) == num

\* if not soup: continue, in for page_num, page_url in enumerate(page_urls, 1):
\* the loop goes on with the next URL of the plan
Continue(num) == num + 1

PageDelayMs == 1000     \* time.sleep(1) after the fetch of a listing page
TaskDelayMs == 500      \* time.sleep(0.5) after each completed future

\* no page is being processed
NoTurn == [fetched |-> FALSE, delays |-> <<>>]

\* all_results = page_results: the earlier pages' records are lost
ExtendReplacing(all, page) == page

\* the records of the page put in front of the earlier pages
ExtendInFront(all, page) == page \o all

\* all_results.extend(page_results)
Extend(all, page) == all \o page

\* what is kept of a page gone through: its URL, how it was handled, how
\* many elements were located and records contributed, the next-page link
\* its document carries, whether it was fetched (the seed is not, it is
\* cached) and the delays taken from its fetch to the end of its turn
Summary(num, how, got, t) ==
    [num |-> num, url |-> page_urls[num], route |-> how,
     located |-> Len(elements), links |-> links, got |-> got,
     next |-> soup.pag.next, fetched |-> t.fetched, delays |-> t.delays]

(***************************************************************************)
(* Spec: scrape(url) from the seed fetch to its return, over a catalogue   *)
(* of documents.                                                           *)
(***************************************************************************)
MaxPages == 3       \* greatest max_pages
MaxWorkers == 2     \* greatest max_workers

Shape(anchorLists) == [i \in 1..Len(anchorLists) |-> El(i, anchorLists[i])]

\* located elements: none; three without links; three of which two link to
\* distinct pages; three of which two link to the same page; two of which one
\* links to a page; three of which one has a malformed href
ListingShapes ==
    {<<>>,
     Shape(<< <<>>, <<>>, <<>> >>),
     Shape(<< <<ToPage(1)>>, <<ToPage(2)>>, <<>> >>),
     Shape(<< <<ToPage(1)>>, <<ToPage(1)>>, <<Special>> >>),
     Shape(<< <<ToPage(1)>>, <<Special>> >>),
     Shape(<< <<>>, <<Bad>>, <<>> >>)}

SeedPags ==
    {NoPag,
     [container |-> TRUE, next |-> Url("next", <<>>), total |-> NoTotal,
      load_more |-> FALSE],
     [container |-> TRUE, next |-> NoUrl, total |-> 2, load_more |-> FALSE],
     [container |-> FALSE, next |-> NoUrl, total |-> NoTotal,
      load_more |-> TRUE]}

\* the detail signal is read only when fewer than 3 elements are located
SeedDocs ==
    {Doc(s, d, p) : s \in ListingShapes, d \in BOOLEAN, p \in SeedPags}
    \ {Doc(s, TRUE, p) : s \in {t \in ListingShapes : Len(t) >= 3},
                         p \in SeedPags}

\* a page that links to the page after it
NextPag == [container |-> TRUE, next |-> Url("more", <<>>), total |-> NoTotal,
            load_more |-> FALSE]

\* of a later page only the located elements are read, whether or not the
\* page links to a further one: each shape on a page without a next link,
\* a page extracted in place and a page fanned out with one
PageDocs ==
    {Doc(s, FALSE, NoPag) : s \in ListingShapes}
    \cup {Doc(Shape(<< <<>>, <<>>, <<>> >>), FALSE, NextPag),
          Doc(Shape(<< <<ToPage(1)>>, <<Special>> >>), FALSE, NextPag)}

SeedUrls ==
    {Url("dir", <<>>), Url("dir", <<Pair("page", "1")>>),
     Url("dir", <<Pair("page", "2")>>)}

\* what extracting one record can end in: SpecRecord shows both
ExtractOutcomes == {"record", "raise"}

Init ==
    /\ url \in SeedUrls
    /\ max_pages \in 1..MaxPages
    /\ max_workers \in 1..MaxWorkers
    /\ pc = "start"
    /\ initial_soup = NoDoc /\ page_type = "" /\ page_urls = <<>>
    /\ page_num = 0 /\ soup = NoDoc /\ elements = <<>> /\ links = {}
    /\ route = "" /\ next_element = 0 /\ futures = <<>>
    /\ page_results = <<>> /\ all_results = <<>> /\ returned = <<>>
    /\ visited = <<>> /\ turn = NoTurn
    /\ IdleButOrch

\* scrape: soup = self.fetcher.get_soup(url); if not soup: return []
FetchSeed ==
    /\ pc = "start"
    /\ \E d \in SeedDocs \cup {NoDoc} :
          /\ initial_soup' = d
          /\ IF d.ok THEN pc' = "classify" /\ returned' = returned
                     ELSE pc' = "done" /\ returned' = <<>>
    /\ UNCHANGED <<url, max_pages, max_workers, page_type, page_urls, page_num,
                   soup, elements, links, route, next_element, futures,
                   page_results, all_results, visited, turn>>
    /\ UNCHANGED butOrch

\* page_type = StructureAnalyzer.detect_detail_page_type(soup)
Classify ==
    /\ pc = "classify"
    /\ page_type' = detect_detail_page_type(initial_soup)
    /\ pc' = IF page_type' = "detail" THEN "detail" ELSE "plan"
    /\ UNCHANGED <<url, max_pages, max_workers, initial_soup, page_urls,
                   page_num, soup, elements, links, route, next_element,
                   futures, page_results, all_results, returned, visited, turn>>
    /\ UNCHANGED butOrch

\* return [self._extract_from_detail_page(soup, field_schema, url)]
ScrapeDetail ==
    /\ pc = "detail"
    /\ \E out \in ExtractOutcomes :
          IF out = "record"
          THEN pc' = "done" /\ returned' = <<Rec(0, "seed", 0, NoLink)>>
          ELSE pc' = "raised" /\ returned' = returned
    /\ UNCHANGED <<url, max_pages, max_workers, initial_soup, page_type,
                   page_urls, page_num, soup, elements, links, route,
                   next_element, futures, page_results, all_results, visited, turn>>
    /\ UNCHANGED butOrch

\* _scrape_listing_pages up to its loop: detection and the page plan
Plan ==
    /\ pc = "plan"
    /\ LET pagination_info == detect_pagination(initial_soup.pag, url)
       IN  page_urls' = IF pagination_info.has_pagination
                        THEN generate_pages(url, pagination_info, max_pages)
                        ELSE <<url>>
    /\ page_num' = 1
    /\ all_results' = <<>>
    /\ pc' = "next_page"
    /\ UNCHANGED <<url, max_pages, max_workers, initial_soup, page_type, soup,
                   elements, links, route, next_element, futures,
                   page_results, returned, visited, turn>>
    /\ UNCHANGED butOrch

\* the head of the loop: the cached seed document for the base URL, else a
\* fetch; a failed fetch goes on to the next URL of the plan
NextPage ==
    /\ pc = "next_page"
    /\ page_num <= Len(page_urls)
    /\ IF page_urls[page_num] = url /\ initial_soup.ok
       THEN /\ soup' = initial_soup
            /\ pc' = "listing"
            /\ turn' = NoTurn
            /\ UNCHANGED <<page_num, visited>>
       ELSE \E d \in PageDocs \cup {NoDoc} :
               IF d.ok
               THEN /\ soup' = d
                    /\ pc' = "listing"
                    /\ turn' = [fetched |-> TRUE, delays |-> <<PageDelayMs>>]
                    /\ UNCHANGED <<page_num, visited>>
               ELSE /\ visited' =
                          Append(visited,
                                 Summary(page_num, "skip", 0,
                                         [fetched |-> TRUE, delays |-> <<>>]))
                    /\ page_num' = Continue(page_num)
                    /\ UNCHANGED <<soup, pc, turn>>
    /\ UNCHANGED <<url, max_pages, max_workers, initial_soup, page_type,
                   page_urls, elements, links, route, next_element, futures,
                   page_results, all_results, returned>>
    /\ UNCHANGED butOrch

\* the plan is exhausted: return all_results
Return ==
    /\ pc = "next_page"
    /\ page_num > Len(page_urls)
    /\ returned' = all_results
    /\ pc' = "done"
    /\ UNCHANGED <<url, max_pages, max_workers, initial_soup, page_type,
                   page_urls, page_num, soup, elements, links, route,
                   next_element, futures, page_results, all_results, visited, turn>>
    /\ UNCHANGED butOrch

\* _extract_from_listing_page: locate, extract the links, route.  The
\* fan-out submits one task per link, in the order list(set(links)) gives.
Listing ==
    /\ pc = "listing"
    /\ elements' = soup.elems
    /\ page_results' = <<>>
    /\ LET found == extract_links_from_elements(soup.elems)
       IN  IF soup.elems = <<>>
           THEN /\ route' = "empty" /\ pc' = "page_end"
                /\ UNCHANGED <<links, next_element, futures>>
           ELSE IF found.raised
           THEN /\ pc' = "raised"
                /\ UNCHANGED <<links, route, next_element, futures>>
           ELSE IF FanOut(found.links, soup.elems)
           THEN /\ links' = found.links
                /\ route' = "fanout" /\ pc' = "fanout"
                /\ \E order \in Orders(found.links) :
                      futures' = [i \in 1..Len(order) |-> Task(order[i])]
                /\ UNCHANGED next_element
           ELSE /\ links' = found.links
                /\ route' = "inplace" /\ pc' = "inplace"
                /\ next_element' = 1
                /\ UNCHANGED futures
    /\ UNCHANGED <<url, max_pages, max_workers, initial_soup, page_type,
                   page_urls, page_num, soup, all_results, returned, visited, turn>>
    /\ UNCHANGED butOrch

\* _extract_from_elements: one turn of its loop, one record appended; nothing
\* catches what the extraction or the enrichment raises
ExtractElement ==
    /\ pc = "inplace"
    /\ \E out \in ExtractOutcomes :
          IF out = "record"
          THEN /\ page_results' =
                     Append(page_results,
                            Rec(page_num, "element", elements[next_element].id,
                                NoLink))
               /\ next_element' = next_element + 1
               /\ pc' = IF next_element = Len(elements)
                        THEN "page_end" ELSE "inplace"
          ELSE /\ pc' = "raised"
               /\ UNCHANGED <<page_results, next_element>>
    /\ UNCHANGED <<url, max_pages, max_workers, initial_soup, page_type,
                   page_urls, page_num, soup, elements, links, route, futures,
                   all_results, returned, visited, turn>>
    /\ UNCHANGED butOrch

\* a worker of the pool takes the oldest queued task and calls
\* _scrape_single_detail_page, which begins with get_soup(url)
StartTask ==
    /\ pc = "fanout"
    /\ WorkerFree(futures, max_workers)
    /\ \E i \in 1..Len(futures) :
          /\ futures[i].st = "queued"
          /\ \A j \in 1..(i - 1) : futures[j].st # "queued"
          /\ futures' = [futures EXCEPT ![i].st = "running",
                                        ![i].fetches = @ + 1]
    /\ UNCHANGED <<url, max_pages, max_workers, pc, initial_soup, page_type,
                   page_urls, page_num, soup, elements, links, route,
                   next_element, page_results, all_results, returned, visited, turn>>
    /\ UNCHANGED butOrch

\* _scrape_single_detail_page ends: None when the fetch failed, else the
\* record of the detail page (an empty one under an empty schema), or what
\* its extraction raised
FinishTask ==
    /\ pc = "fanout"
    /\ \E i \in Running(futures), out \in {"none", "empty"} \cup ExtractOutcomes :
          futures' = [futures EXCEPT ![i].st = "done", ![i].out = out]
    /\ UNCHANGED <<url, max_pages, max_workers, pc, initial_soup, page_type,
                   page_urls, page_num, soup, elements, links, route,
                   next_element, page_results, all_results, returned, visited, turn>>
    /\ UNCHANGED butOrch

\* one turn of the as_completed loop: the record is appended, None is dropped,
\* an exception is caught and reported, and the loop sleeps; after the last
\* one the pool is left
Collect ==
    /\ pc = "fanout"
    /\ \E i \in 1..Len(futures) :
          /\ futures[i].st = "done"
          /\ ~futures[i].collected
          /\ futures' = [futures EXCEPT ![i].collected = TRUE]
          /\ page_results' = HandleResult(page_results, futures[i], page_num)
          /\ pc' = IF PoolDrained(futures') THEN "page_end" ELSE "fanout"
    /\ turn' = [turn EXCEPT !.delays = Append(@, TaskDelayMs)]
    /\ UNCHANGED <<url, max_pages, max_workers, initial_soup, page_type,
                   page_urls, page_num, soup, elements, links, route,
                   next_element, all_results, returned, visited>>
    /\ UNCHANGED butOrch

\* the end of a turn of the page loop: the page's records are appended; a
\* page after the first with no record ends the loop
PageEnd ==
    /\ pc = "page_end"
    /\ all_results' = Extend(all_results, page_results)
    /\ visited' = Append(visited,
                         Summary(page_num, route, Len(page_results), turn))
    /\ IF page_results = <<>> /\ page_num > 1
       THEN /\ returned' = all_results'
            /\ pc' = "done"
            /\ UNCHANGED page_num
       ELSE /\ page_num' = page_num + 1
            /\ pc' = "next_page"
            /\ UNCHANGED returned
    /\ soup' = NoDoc /\ elements' = <<>> /\ links' = {} /\ route' = ""
    /\ next_element' = 0 /\ futures' = <<>> /\ page_results' = <<>>
    /\ turn' = NoTurn
    /\ UNCHANGED <<url, max_pages, max_workers, initial_soup, page_type,
                   page_urls>>
    /\ UNCHANGED butOrch

Next ==
    \/ FetchSeed \/ Classify \/ ScrapeDetail \/ Plan \/ NextPage \/ Return
    \/ Listing \/ ExtractElement \/ StartTask \/ FinishTask \/ Collect
    \/ PageEnd

Spec == Init /\ [][Next]_vars

(***************************************************************************)
(* SpecRoute: one listing page, from the call of _extract_from_listing_page*)
(* on the seed document of a one-page plan to the return of scrape, over   *)
(* every list of located elements up to the bounds.                        *)
(***************************************************************************)
MaxLocated == 4         \* located elements on the page

\* the anchors of an element: none; one special; one to a page; one to a
\* page with a fragment; a special one followed by one of the others; one
\* malformed
AnchorLists ==
    {<<>>, <<Special>>, <<ToPage(1)>>, <<ToPage(2)>>, <<ToFragment(1)>>,
     <<Special, ToPage(1)>>, <<Special, ToFragment(2)>>, <<Bad>>}

RouteShapes ==
    UNION {{Shape(a) : a \in [1..n -> AnchorLists]} : n \in 0..MaxLocated}

RouteInit ==
    /\ url = Url("dir", <<>>)
    /\ max_pages = 1
    /\ max_workers = MaxWorkers
    /\ initial_soup \in {Doc(s, FALSE, NoPag) : s \in RouteShapes}
    /\ page_type = "listing"
    /\ page_urls = <<url>>
    /\ page_num = 1
    /\ soup = initial_soup
    /\ pc = "listing"
    /\ elements = <<>> /\ links = {} /\ route = "" /\ next_element = 0
    /\ futures = <<>> /\ page_results = <<>> /\ all_results = <<>>
    /\ returned = <<>> /\ visited = <<>> /\ turn = NoTurn
    /\ IdleButOrch

RouteNext ==
    \/ Listing \/ ExtractElement \/ StartTask \/ FinishTask \/ Collect
    \/ PageEnd \/ Return

SpecRoute == RouteInit /\ [][RouteNext]_vars

(***************************************************************************)
(* Properties of the orchestrator.                                         *)
(***************************************************************************)
RECURSIVE SumGot(_)
\* the records the pages gone through contributed
SumGot(v) == IF v = <<>> THEN 0 ELSE Head(v).got + SumGot(Tail(v))

\* C2: scrape returns an empty record list only when the fetch of the seed
\* document fails: an empty overall result implies the seed fetch failed.
C2_EmptyOnlyOnSeedFailure ==
    (pc = "done" /\ returned = <<>>) => ~initial_soup.ok

\* C2, amended: when scrape returns, a failed seed fetch gives the empty list
\* with no page gone through; a seed taken for a detail document gives one
\* record; a listing seed gives the records its pages contributed, which is
\* the empty list exactly when no page contributed one, and a page
\* contributes none only when its fetch failed, no element was located on it
\* or it was fanned out and every detail page failed.
C2_EmptyIffNothingExtracted ==
    pc = "done" =>
        /\ ~initial_soup.ok => (returned = <<>> /\ visited = <<>>)
        /\ (initial_soup.ok /\ page_type = "detail") => Len(returned) = 1
        /\ (initial_soup.ok /\ page_type = "listing") =>
              /\ Len(returned) = SumGot(visited)
              /\ \A i \in 1..Len(visited) :
                    visited[i].got = 0 =>
                        visited[i].route \in {"skip", "empty", "fanout"}

\* the seed was obtained, its page was fanned out, every detail page failed,
\* and scrape returned the empty list
C2_Witness ==
    /\ pc = "done" /\ initial_soup.ok /\ returned = <<>>
    /\ \E i \in 1..Len(visited) :
          visited[i].route = "fanout" /\ visited[i].got = 0

\* C3: the orchestration never raises on a per-page or per-record failure:
\* whatever fails while one page, one listing element or one detail page is
\* extracted or enriched, scrape does not propagate it to its caller.
C3_NeverRaises == pc # "raised"

\* the links the elements resolve to, mail, tel, script and fragment-only
\* hrefs excluded
FollowableLinks(els) ==
    {ChosenHref(els[i]) :
        i \in {j \in 1..Len(els) : ChosenHref(els[j]).kind \in {"plain", "frag"}}}

\* those of them whose URL holds no fragment
FragmentFreeLinks(els) == {h \in FollowableLinks(els) : h.kind = "plain"}

Routed == route \in {"fanout", "inplace"}

\* in-place extraction that returned left one record per located element
InPlaceOnePerElement ==
    (pc = "page_end" /\ route = "inplace") =>
        /\ Len(page_results) = Len(elements)
        /\ \A i \in 1..Len(elements) :
              /\ page_results[i].kind = "element"
              /\ page_results[i].id = elements[i].id

Targets(fs) == {fs[i].target : i \in 1..Len(fs)}

\* C30 (as stated): a listing page routed to fan-out gets exactly one detail
\* task per distinct followable link of the page (mail, tel, script and
\* fragment-only links excluded) and yields at most as many records as it
\* has distinct links and never more than it has located elements; elements
\* without a followable link or sharing one produce no record of their own.
C30_OneTaskPerFollowableLink ==
    (route = "fanout" /\ pc \in {"fanout", "page_end"}) =>
        /\ Targets(futures) = FollowableLinks(elements)
        /\ Len(futures) = Cardinality(FollowableLinks(elements))
        /\ Len(page_results) <= Len(futures)
        /\ Len(page_results) <= Len(elements)
        /\ \A i \in 1..Len(page_results) :
              /\ page_results[i].kind = "detail"
              /\ page_results[i].link \in FollowableLinks(elements)

\* C30, amended: the links that get a task are the distinct followable links
\* whose URL holds no fragment in its last path segment: exactly one task
\* per such link, each record that of one task, so the page yields at most
\* as many records as it has such links and never more than it has located
\* elements; an element whose link is shared, special, missing or holds a
\* fragment produces no record of its own.
C30_OneTaskPerFragmentFreeLink ==
    (route = "fanout" /\ pc \in {"fanout", "page_end"}) =>
        /\ Targets(futures) = FragmentFreeLinks(elements)
        /\ Len(futures) = Cardinality(FragmentFreeLinks(elements))
        /\ Len(futures) <= Len(elements)
        /\ Len(page_results) <= Len(futures)
        /\ \A i \in 1..Len(page_results) :
              /\ page_results[i].kind = "detail"
              /\ page_results[i].link \in FragmentFreeLinks(elements)
        /\ \A i, j \in 1..Len(page_results) :
              page_results[i].link = page_results[j].link => i = j

\* four located elements, two of them sharing a link, one with its own and
\* one without an anchor: two tasks, and the page ends with two records
C30_Witness ==
    /\ pc = "page_end" /\ route = "fanout"
    /\ Len(elements) = 4 /\ Len(futures) = 2 /\ Len(page_results) = 2
    /\ \E i, j, k \in 1..4 :
          /\ i # j /\ ChosenHref(elements[i]) = ChosenHref(elements[j])
          /\ ChosenHref(elements[i]).kind = "plain"
          /\ elements[k].anchors = <<>>

(***************************************************************************)
(* The fetch boundary (scraper/fetcher.py).  The static request either     *)
(* raises (a connection error, a timeout), answers an error status, on     *)
(* which raise_for_status raises, or answers a text; the text of a page is *)
(* described by the markers fetch reads in it.  The rendered fetch makes   *)
(* up to 3 attempts, each of which renders the page or raises.             *)
(***************************************************************************)
\* the call raised to its caller
Raised == "<raised>"

Request(kind, text, react, spa, minimal) ==
    [kind |-> kind, text |-> text, react |-> react, spa |-> spa,
     minimal |-> minimal]

StaticRequests ==
    {Request(k, Empty, FALSE, FALSE, FALSE) :
        k \in {"connection_error", "timeout", "http_error", "ok"}}
    \cup {Request("ok", "page", r, sp, m) :
             r \in BOOLEAN, sp \in BOOLEAN, m \in BOOLEAN}

\* a fetch_static without its exception handler
fetch_static_Unhandled(req) == IF req.kind = "ok" THEN req.text ELSE Raised

\* ContentFetcher.fetch_static: response.text, None on any exception
fetch_static(req) == IF req.kind = "ok" THEN req.text ELSE Null

DynamicRetries == 3

\* ContentFetcher.fetch_dynamic: the content of the first attempt that
\* renders, None when every attempt raised
fetch_dynamic(attempts) ==
    IF \E i \in 1..DynamicRetries : attempts[i] = "rendered"
    THEN "rendered page" ELSE Null

\* ContentFetcher.fetch
fetch(strategy, req, attempts) ==
    CASE strategy = "static"  -> fetch_static(req)
      [] strategy = "dynamic" -> fetch_dynamic(attempts)
      [] strategy = "auto"    ->
            LET content == fetch_static(req)
            IN  IF content = Raised THEN Raised
                ELSE IF Truthy(content) /\ (req.react \/ req.spa \/ req.minimal)
                THEN LET dynamic_content == fetch_dynamic(attempts)
                     IN  IF Truthy(dynamic_content)
                         THEN dynamic_content ELSE content
                ELSE content

\* ContentFetcher.get_soup: the parsed content, None when there is none
get_soup(strategy, req, attempts) ==
    LET content == fetch(strategy, req, attempts)
    IN  IF content = Raised THEN Raised
        ELSE IF ~Truthy(content) THEN Null
        ELSE IF content = "page" THEN "soup of page"
        ELSE "soup of rendered page"

FetchInit ==
    /\ fStrategy \in {"static", "dynamic", "auto"}
    /\ fStatic \in StaticRequests
    /\ fDynamic \in [1..DynamicRetries -> {"rendered", "raises"}]
    /\ fOut = ""
    /\ fPc = "ready"
    /\ IdleButFetch

\* a call of fetch_static(url)
FetchStatic ==
    /\ fPc = "ready"
    /\ fOut' = fetch_static(fStatic)
    /\ fPc' = "static_done"
    /\ UNCHANGED <<fStrategy, fStatic, fDynamic>>
    /\ UNCHANGED butFetch

\* a call of get_soup(url, strategy)
GetSoup ==
    /\ fPc = "ready"
    /\ fOut' = get_soup(fStrategy, fStatic, fDynamic)
    /\ fPc' = "soup_done"
    /\ UNCHANGED <<fStrategy, fStatic, fDynamic>>
    /\ UNCHANGED butFetch

FetchNext == FetchStatic \/ GetSoup

SpecFetch == FetchInit /\ [][FetchNext]_vars

StaticFailed == fStatic.kind # "ok"

\* C12: at the fetch boundary a failure is an explicit empty result, never a
\* propagating fault: whenever the static request raises or answers an error
\* status, fetch_static, and get_soup built on it, return None and do not
\* raise.
C12_FailureIsNone ==
    /\ fOut # Raised
    /\ (fPc = "static_done" /\ StaticFailed) => fOut = Null
    /\ (fPc = "soup_done" /\ StaticFailed /\ fStrategy \in {"static", "auto"})
          => fOut = Null

\* get_soup under the auto strategy, the static request timing out
C12_Witness ==
    /\ fPc = "soup_done" /\ fStrategy = "auto"
    /\ fStatic.kind = "timeout" /\ fOut = Null

(***************************************************************************)
(* The page loop, the worker pool and the pacing (scraper/main.py).        *)
(***************************************************************************)
\* the page loop was left by its break
Broke ==
    /\ pc = "done" /\ initial_soup.ok /\ page_type = "listing"
    /\ page_num <= Len(page_urls)

\* the loop was stopped at the page the i-th summary is of
StoppedAt(i) == Broke /\ i = Len(visited)

\* C13: the page loop is stopped early at a page exactly when that page is
\* beyond the first and the locator returned an empty set on it: an empty
\* first page never stops the walk, and a later page on which elements were
\* located never stops it, even when it contributed zero records.
C13_StopsExactlyOnEmptyLocator ==
    \A i \in 1..Len(visited) :
        visited[i].route # "skip" =>
            (StoppedAt(i) <=> (visited[i].num > 1 /\ visited[i].located = 0))

\* what the loop does: it is stopped at a processed page exactly when that
\* page is beyond the first and contributed no record
C13_CodeStopRule ==
    \A i \in 1..Len(visited) :
        visited[i].route # "skip" =>
            (StoppedAt(i) <=> (visited[i].num > 1 /\ visited[i].got = 0))

\* the plan was made from a captured next-page link
NextLinkPlan ==
    LET info == detect_pagination(initial_soup.pag, url)
    IN  /\ initial_soup.ok /\ page_type = "listing"
        /\ info.has_pagination /\ info.type # "url_param"
        /\ info.next_url # NoUrl

\* C14: with next-link pagination the planner emits exactly the base URL and
\* the next URL, and the orchestrator re-runs the detection on each page it
\* fetches: every non-empty page below the ceiling that links to a next page
\* is followed by the fetch and processing of that page, in chain order.
C14_ChainFollowed ==
    (pc = "done" /\ NextLinkPlan) =>
        /\ page_urls = <<url, initial_soup.pag.next>>
        /\ \A i \in 1..Len(visited) :
              (/\ visited[i].next # NoUrl
               /\ visited[i].got > 0
               /\ i < max_pages) =>
                  /\ i < Len(visited)
                  /\ visited[i + 1].url = visited[i].next
                  /\ visited[i + 1].fetched

\* what the orchestrator does: the detection runs on the seed only, so the
\* walk ends with the second page of the plan whatever that page links to
C14_CodeOneHop ==
    (pc \in {"next_page", "listing", "inplace", "fanout", "page_end", "done"}
        /\ NextLinkPlan) =>
        /\ page_urls = <<url, initial_soup.pag.next>>
        /\ Len(visited) <= 2

(***************************************************************************)
(* FairSpec: scrape keeps running.  Every fetch and every enrichment call  *)
(* returns, the calling thread goes on with its next statement and the pool*)
(* runs the tasks it was given, so a step that can be taken is taken.      *)
(***************************************************************************)
FairSpec == Spec /\ WF_vars(Next)

\* C15: every scrape goes from Init through Classify into exactly one of the
\* listing flow and the detail flow and from there to Done, which it reaches
\* eventually; a detail document, the seed or one fanned out, is never
\* treated as a listing, so it changes neither the page plan nor the tasks.
C15_EveryScrapeReachesDone ==
    /\ <>(pc = "done")
    /\ [][/\ pc' = "classify" => pc = "start"
          /\ pc = "classify" => pc' \in {"detail", "plan"}
          /\ pc \in {"detail", "fanout"} =>
                (page_urls' = page_urls /\ Len(futures') = Len(futures))]_vars

\* what holds of the code: scrape ends, by returning or by raising
C15_CodeEnds == <>(pc \in {"done", "raised"})

(***************************************************************************)
(* SpecPool: one fan-out batch, from the call of _extract_from_listing_page*)
(* on a seed page whose elements each link to a detail page of their own   *)
(* to the return of scrape, over every order of submission, every pool     *)
(* size and every interleaving of the tasks.                               *)
(***************************************************************************)
MaxTasks == 3       \* detail links on the page

PoolShapes ==
    {Shape([i \in 1..n |-> <<ToPage(i)>>]) : n \in 1..MaxTasks}

PoolInit ==
    /\ url = Url("dir", <<>>)
    /\ max_pages = 1
    /\ max_workers \in 1..MaxWorkers
    /\ initial_soup \in {Doc(s, FALSE, NoPag) : s \in PoolShapes}
    /\ page_type = "listing"
    /\ page_urls = <<url>>
    /\ page_num = 1
    /\ soup = initial_soup
    /\ pc = "listing"
    /\ elements = <<>> /\ links = {} /\ route = "" /\ next_element = 0
    /\ futures = <<>> /\ page_results = <<>> /\ all_results = <<>>
    /\ returned = <<>> /\ visited = <<>> /\ turn = NoTurn
    /\ IdleButOrch

PoolNext ==
    \/ Listing \/ StartTask \/ FinishTask \/ Collect \/ PageEnd \/ Return

SpecPool == PoolInit /\ [][PoolNext]_vars

\* C16: during a fan-out the number of detail fetches in flight never
\* exceeds max_workers, however many detail URLs there are and however the
\* tasks interleave.
C16_InFlightWithinCeiling == Cardinality(Running(futures)) <= max_workers

\* three tasks on a pool of two: two are running and the third waits
C16_Witness ==
    /\ pc = "fanout" /\ Len(futures) = 3 /\ max_workers = 2
    /\ Cardinality(Running(futures)) = 2
    /\ \E i \in 1..Len(futures) : futures[i].st = "queued"

\* the tasks that have not completed or whose result was not handled yet
Outstanding(fs) ==
    {i \in 1..Len(fs) : fs[i].st # "done" \/ ~fs[i].collected}

\* the records of page k are in the accumulated result
Appended(k) ==
    Len(SelectSeq(all_results, LAMBDA r : r.page = k)) = visited[k].got

\* C17: the walk over the pages is strictly sequential: one listing page is
\* fetched or processed at a time, and the fetch of page k+1 is issued only
\* after every detail task fanned out from page k has completed and the
\* records of page k were appended to the result.
C17_PagesStrictlySequential ==
    /\ Outstanding(futures) # {} => pc = "fanout"
    /\ pc \in {"next_page", "listing", "inplace", "fanout", "page_end"} =>
          /\ Len(visited) = page_num - 1
          /\ \A k \in 1..Len(visited) : Appended(k)
    /\ pc = "next_page" => (futures = <<>> /\ page_results = <<>>)

\* page 2 is about to be fetched: page 1 was fanned out and its two records
\* are in the result
C17_Witness ==
    /\ pc = "next_page" /\ page_num = 2 /\ Len(page_urls) >= 2
    /\ visited[1].route = "fanout" /\ visited[1].got = 2
    /\ Len(all_results) = 2

\* the tasks whose result was handled and was a non-empty record
Delivered(fs) == {i \in 1..Len(fs) : fs[i].collected /\ fs[i].out = "record"}

\* C18: within one fan-out batch every detail URL is fetched exactly once,
\* whether its task succeeds or fails; a task that fails or raises
\* contributes no record and the records of the other tasks are still
\* returned: the batch yields exactly one record per task that produced a
\* non-empty record, none lost and none duplicated, under every interleaving.
C18_OneFetchOneRecordPerTask ==
    (route = "fanout" /\ pc \in {"fanout", "page_end"}) =>
        /\ {futures[i].target : i \in 1..Len(futures)} = links
        /\ \A i, j \in 1..Len(futures) :
              futures[i].target = futures[j].target => i = j
        /\ \A i \in 1..Len(futures) :
              /\ futures[i].fetches = IF futures[i].st = "queued" THEN 0 ELSE 1
              /\ Len(SelectSeq(page_results,
                               LAMBDA r : r.link = futures[i].target))
                    = IF i \in Delivered(futures) THEN 1 ELSE 0
        /\ Len(page_results) = Cardinality(Delivered(futures))
        /\ pc = "page_end" =>
              \A i \in 1..Len(futures) :
                  /\ futures[i].st = "done" /\ futures[i].fetches = 1
                  /\ i \in Delivered(futures) <=> futures[i].out = "record"

\* a batch of three ends: one fetch failed, one task raised, and the record
\* of the third is the batch's result
C18_Witness ==
    /\ pc = "page_end" /\ route = "fanout" /\ Len(futures) = 3
    /\ \E i, j, k \in 1..3 :
          /\ futures[i].out = "none" /\ futures[j].out = "raise"
          /\ futures[k].out = "record"
          /\ page_results = <<Rec(page_num, "detail", 0, futures[k].target)>>

\* how many delays of d milliseconds a sequence of delays holds
Delays(ds, d) == Cardinality({i \in 1..Len(ds) : ds[i] = d})

\* the i-th and the j-th page gone through were fetched one after the other
ConsecutiveFetches(i, j) ==
    /\ i < j /\ visited[i].fetched /\ visited[j].fetched
    /\ \A k \in (i + 1)..(j - 1) : ~visited[k].fetched

\* C19: between any two consecutive fetches of listing pages other than the
\* seed there is one pacing delay, whether the earlier fetch succeeded or
\* failed, and one pacing delay is taken for every completed detail task.
C19_OneDelayPerFetchAndTask ==
    /\ \A i, j \in 1..Len(visited) :
          ConsecutiveFetches(i, j) =>
              Delays(visited[i].delays, PageDelayMs) = 1
    /\ \A i \in 1..Len(visited) :
          visited[i].route = "fanout" =>
              Delays(visited[i].delays, TaskDelayMs)
                  = Cardinality(visited[i].links)
    /\ pc = "fanout" =>
          Delays(turn.delays, TaskDelayMs)
              = Cardinality({i \in 1..Len(futures) : futures[i].collected})

\* what the code does: the page delay is taken after a fetch that succeeded
\* and not after one that failed; one task delay per handled future
C19_CodePacing ==
    /\ \A i \in 1..Len(visited) :
          /\ Delays(visited[i].delays, PageDelayMs) =
                IF visited[i].fetched /\ visited[i].route # "skip"
                THEN 1 ELSE 0
          /\ Delays(visited[i].delays, TaskDelayMs) =
                IF visited[i].route = "fanout"
                THEN Cardinality(visited[i].links) ELSE 0
    /\ pc = "fanout" =>
          Delays(turn.delays, TaskDelayMs)
              = Cardinality({i \in 1..Len(futures) : futures[i].collected})

(***************************************************************************)
(* The page classifier (StructureAnalyzer.detect_detail_page_type).  A     *)
(* document is described by what the classifier reads in it: the elements  *)
(* the locator returns, the elements that carry a class attribute, whether *)
(* there is an h1, and the length of the text get_text(strip=True) gives.  *)
(* A class value is described by the word it holds, whether the word is    *)
(* part of a longer name ("profile-card") and whether it is capitalised.   *)
(***************************************************************************)
ClassValue(word, affixed, upper) ==
    [word |-> word, affixed |-> affixed, upper |-> upper]

Block(tag, class) == [tag |-> tag, class |-> class]

\* re.compile(r'profile|bio|about|detail', re.I) searched in a class value
IndicatorWords == {"profile", "bio", "about", "detail"}

ClassMatches(class) == class.word \in IndicatorWords

TextLimit == 1000

\* a class signal that any element can give
class_indicator_AnyTag(doc) == \E b \in doc.blocks : ClassMatches(b.class)

\* soup.find('div', {'class': re.compile(...)})
class_indicator(doc) ==
    \E b \in doc.blocks : b.tag = "div" /\ ClassMatches(b.class)

\* any(detail_indicators)
detail_indicators(doc) ==
    class_indicator(doc) \/ doc.h1 \/ doc.text > TextLimit

MaxCandidates == 4      \* located elements
MaxBlocks == 2          \* elements with a class attribute

ClassValues ==
    {ClassValue(w, a, u) : w \in {"profile", "about", "sidebar"},
                           a \in BOOLEAN, u \in BOOLEAN}

Blocks == {Block(t, c) : t \in {"div", "section"}, c \in ClassValues}

\* the sets of at most MaxBlocks blocks
BlockSets ==
    UNION {{{f[i] : i \in 1..n} : f \in [1..n -> Blocks]} : n \in 0..MaxBlocks}

ClassifiedDocs ==
    [located : 0..MaxCandidates,
     blocks : BlockSets,
     h1 : BOOLEAN,
     text : {0, TextLimit, TextLimit + 1}]

ClsInit ==
    /\ cDoc \in ClassifiedDocs
    /\ cOut = ""
    /\ cPc = "ready"
    /\ IdleButCls

\* a call of detect_detail_page_type(soup)
ClassifyDocument ==
    /\ cPc = "ready"
    /\ cOut' = detect_detail_page_type(
                   Doc([i \in 1..cDoc.located |-> El(i, <<>>)],
                       detail_indicators(cDoc), NoPag))
    /\ cPc' = "done"
    /\ UNCHANGED cDoc
    /\ UNCHANGED butCls

ClsNext == ClassifyDocument

SpecClassify == ClsInit /\ [][ClsNext]_vars

\* C22: the classifier returns listing whenever the locator yields at least
\* 3 candidates; otherwise detail if any of the three signals holds (a
\* descendant whose class suggests profile, bio, about or detail, a top
\* heading, a text longer than 1000 characters) and listing if none holds;
\* the result is always one of the two.
C22_ClassifiedBySignals ==
    cPc = "done" =>
        /\ cOut \in {"listing", "detail"}
        /\ cDoc.located >= 3 => cOut = "listing"
        /\ cDoc.located < 3 =>
              (cOut = "detail" <=>
                  \/ \E b \in cDoc.blocks : ClassMatches(b.class)
                  \/ cDoc.h1
                  \/ cDoc.text > TextLimit)

\* C22, amended: the class signal is given by a div element only, whose
\* class value holds one of the words in any case and at any place; a text
\* of exactly 1000 characters is no signal.
C22_ClassifiedByDivSignals ==
    cPc = "done" =>
        /\ cOut \in {"listing", "detail"}
        /\ cDoc.located >= 3 => cOut = "listing"
        /\ cDoc.located < 3 =>
              (cOut = "detail" <=>
                  \/ \E b \in cDoc.blocks :
                        b.tag = "div" /\ b.class.word \in IndicatorWords
                  \/ cDoc.h1
                  \/ cDoc.text > 1000)

\* two candidates, no h1, exactly 1000 characters, a section and a div each
\* with a matching class: detail, by the div
C22_Witness ==
    /\ cPc = "done" /\ cOut = "detail"
    /\ cDoc.located = 2 /\ ~cDoc.h1 /\ cDoc.text = 1000
    /\ cDoc.blocks = {Block("section", ClassValue("profile", FALSE, FALSE)),
                      Block("div", ClassValue("about", TRUE, TRUE))}

(***************************************************************************)
(* Generic field extraction (DataExtractor._extract_generic_text).  The    *)
(* element is described by what each keyword finds in it: nothing, a       *)
(* descendant whose class or id holds the keyword (with a text of more     *)
(* than 2 characters, or a shorter one), a data-<keyword> attribute, or a  *)
(* "keyword: value" label in its text (the value blank or not); and by the *)
(* texts the fall-backs read.                                              *)
(***************************************************************************)
StopWords ==
    {"the", "and", "for", "that", "with", "from", "extract", "get", "find"}

MinKeywordLength == 3

\* [k for k in keywords if len(k) >= 3 and k not in [...]]
Significant(keywords) ==
    SelectSeq(keywords,
              LAMBDA k : Len(k) >= MinKeywordLength /\ k \notin StopWords)

\* the text a keyword's hit holds
HitValue(k) ==
    CASE k = "research"   -> "Physics"
      [] k = "area"       -> "Room 12"
      [] k = "department" -> "Math"
      [] OTHER            -> "text"

\* one turn of the keyword loop: does it return, and what
KeywordHit(el, k) ==
    LET kind == IF k \in DOMAIN el.hit THEN el.hit[k] ELSE "none"
    IN  CASE kind \in {"class", "data", "label"} ->
                 [returns |-> TRUE, value |-> HitValue(k)]
          [] kind = "blank_label" -> [returns |-> TRUE, value |-> Empty]
          [] OTHER -> [returns |-> FALSE, value |-> Null]

RECURSIVE TryKeywords(_, _)
\* the keyword loop over the keywords in the order given, then the first
\* dd/blockquote/p/span text, then the element's text
TryKeywords(el, order) ==
    IF order = <<>>
    THEN IF el.semantic # Null THEN el.semantic ELSE el.all_text
    ELSE IF KeywordHit(el, Head(order)).returns
    THEN KeywordHit(el, Head(order)).value
    ELSE TryKeywords(el, Tail(order))

\* the values of a sequence
Members(q) == {q[i] : i \in 1..Len(q)}

\* list(set(significant_keywords)): the orders the set can be iterated in
KeywordOrders(description, name) ==
    Orders(Members(Significant(description \o name)))

MaxDescription == 2     \* words in the field description

DescriptionWords == {"research", "area", "the", "id"}
Descriptions ==
    UNION {[1..n -> DescriptionWords] : n \in 0..MaxDescription}
FieldNames == {<<"department">>, <<"area">>}
HitKinds == {"none", "class", "short", "data", "label", "blank_label"}

GenericElements ==
    {[hit |-> h, semantic |-> f[1], all_text |-> f[2]] :
        h \in [{"research", "area", "department"} -> HitKinds],
        f \in {<<Null, Null>>, <<Null, "whole text">>,
               <<"first paragraph", "whole text">>}}

GenInit ==
    /\ gDesc \in Descriptions
    /\ gName \in FieldNames
    /\ gElement \in GenericElements
    /\ gOut = ""
    /\ gPc = "ready"
    /\ IdleButGen

\* a call of _extract_generic_text(element, field_description, field_name)
ExtractGeneric ==
    /\ gPc = "ready"
    /\ \E order \in KeywordOrders(gDesc, gName) :
          gOut' = TryKeywords(gElement, order)
    /\ gPc' = "done"
    /\ UNCHANGED <<gDesc, gName, gElement>>
    /\ UNCHANGED butGen

GenNext == ExtractGeneric

SpecGeneric == GenInit /\ [][GenNext]_vars

\* the significant keywords, those of the description first, then those of
\* the name, each once
DeclaredOrder == FirstKeys([i \in 1..Len(Significant(gDesc \o gName)) |->
                               Pair(Significant(gDesc \o gName)[i], "")], {})

\* the positions in DeclaredOrder of the keywords with a non-empty hit
NonEmptyHits ==
    {i \in 1..Len(DeclaredOrder) :
        gElement.hit[DeclaredOrder[i]] \in {"class", "data", "label"}}

\* C24: generic extraction tries the significant keywords in order, those of
\* the description first and then those of the name, and the first keyword
\* in that order with a non-empty hit determines the value: when two
\* keywords hit different descendants the value is that of the earlier one,
\* the same on every run.
C24_FirstKeywordInOrderWins ==
    (gPc = "done" /\ NonEmptyHits # {}) =>
        gOut = HitValue(DeclaredOrder[
                   CHOOSE i \in NonEmptyHits : \A j \in NonEmptyHits : i <= j])

\* what holds of the code: the value is that of some keyword that returns, a
\* blank label included, or a fall-back when none does
C24_CodeSomeKeywordWins ==
    gPc = "done" =>
        \/ \E k \in Members(DeclaredOrder) :
              KeywordHit(gElement, k).returns
                  /\ gOut = KeywordHit(gElement, k).value
        \/ /\ \A k \in Members(DeclaredOrder) : ~KeywordHit(gElement, k).returns
           /\ gOut = TryKeywords(gElement, <<>>)

(***************************************************************************)
(* The page plan and the result list of a scrape (scraper/main.py).        *)
(***************************************************************************)
\* the pages of the plan that were fetched or taken from the cache and
\* processed
Processed == {i \in 1..Len(visited) : visited[i].route # "skip"}

\* C25: the page sequence is bounded by the page ceiling: for every plan and
\* every max_pages >= 1 the expansion returns at most max_pages URLs, the
\* base URL first, so a scrape fetches and processes at most max_pages
\* listing pages.
C25_PagesWithinCeiling ==
    /\ page_urls # <<>> =>
          (Len(page_urls) <= max_pages /\ page_urls[1] = url)
    /\ Len(visited) <= max_pages
    /\ Cardinality(Processed) <= max_pages

\* what holds of the code: the base URL first, and at most max_pages URLs
\* unless the plan was made from a next-page link, which gives two
C25_CodeCeiling ==
    page_urls # <<>> =>
        /\ page_urls[1] = url
        /\ Len(page_urls) <= (IF NextLinkPlan /\ max_pages = 1
                              THEN 2 ELSE max_pages)
        /\ Len(visited) <= Len(page_urls)

\* the step in which the fetch of a listing page fails
FailedPageFetch ==
    /\ Len(visited') = Len(visited) + 1
    /\ visited'[Len(visited')].route = "skip"

\* C26: a failed fetch of a listing page other than the seed is absorbed as
\* a page skip: no record is added for the page, the records accumulated
\* from the earlier pages are unchanged, the stop rule is not triggered and
\* the loop goes on to the next URL of the plan.
C26_FailedPageFetchIsSkipped ==
    [][FailedPageFetch =>
          /\ page_num > 1
          /\ visited'[Len(visited')].num = page_num
          /\ visited'[Len(visited')].got = 0
          /\ all_results' = all_results /\ page_results' = page_results
          /\ returned' = returned
          /\ pc' = "next_page" /\ page_num' = page_num + 1]_vars

\* page 1 gave records, the fetch of page 2 failed, page 3 gave records, and
\* scrape returned those of pages 1 and 3
C26_Witness ==
    /\ pc = "done" /\ Len(visited) = 3
    /\ visited[1].got > 0 /\ visited[2].route = "skip" /\ visited[3].got > 0
    /\ Len(returned) = visited[1].got + visited[3].got

\* the ids of the records of page k that were extracted in place, in the
\* order they have in a record list
ElementIds(rs, k) ==
    LET mine == SelectSeq(rs, LAMBDA r : r.page = k /\ r.kind = "element")
    IN  [i \in 1..Len(mine) |-> mine[i].id]

\* a record list in page order, the in-place records of a page in the order
\* of its located elements
InPageOrder(rs) ==
    /\ \A i, j \in 1..Len(rs) : i < j => rs[i].page <= rs[j].page
    /\ \A k \in 1..Len(visited) :
          visited[k].route = "inplace" =>
              ElementIds(rs, k) = [i \in 1..visited[k].located |-> i]

\* C27: page results are concatenated in page order: in the list scrape
\* returns every record of page i precedes every record of page j for i < j,
\* whatever the completion order of the detail tasks of a batch, and the
\* records of a page extracted in place are in the order of its elements.
C27_ResultsInPageOrder ==
    /\ pc \in {"next_page", "listing", "inplace", "fanout", "page_end"} =>
          InPageOrder(all_results)
    /\ (pc = "done" /\ page_type = "listing") => InPageOrder(returned)

\* page 1 was fanned out and its second link completed first, page 2 was
\* extracted in place: the two detail records, then the three of page 2
C27_Witness ==
    /\ pc = "done" /\ Len(returned) = 5
    /\ returned[1].link = ToPage(2) /\ returned[2].link = ToPage(1)
    /\ \A i \in 3..5 : returned[i].page = 2 /\ returned[i].id = i - 2

\* the turns of the page loop that extracted from the cached seed document
SeedTurns == {i \in Processed : visited[i].url = url /\ ~visited[i].fetched}

\* C29: no listing document is processed twice in one scrape: the entries of
\* the page-URL sequence are pairwise distinct and the seed document is
\* extracted from exactly once, also for a seed URL that already carries a
\* pagination parameter value (such as ?page=2).
C29_NoDocumentTwice ==
    /\ \A i, j \in 1..Len(page_urls) : i # j => page_urls[i] # page_urls[j]
    /\ Cardinality(SeedTurns) <= 1
    /\ (pc = "done" /\ page_type = "listing" /\ returned # <<>>) =>
          Cardinality({returned[i].page : i \in 1..Len(returned)}
                      \cap SeedTurns) <= 1

\* what holds of the code: the only entry of the plan that can repeat is the
\* base URL, at the position its own pagination value names
C29_CodeRepeatsOnlyTheSeed ==
    \A i, j \in 1..Len(page_urls) :
        (i < j /\ page_urls[i] = page_urls[j]) =>
            /\ i = 1
            /\ ValuesOfKey(url, "page") = <<Str(j)>>

====
